---- MODULE Spec2Model ----
(***************************************************************************)
(* Model of the metrics history engine of status_page (src/app.py):        *)
(*   - the history store (_record_pi_history, the query readers, the       *)
(*     on-disk log and _load_pi_full_history_from_disk),                   *)
(*   - the downsampler (_downsample_entries),                              *)
(*   - the session tracker (_update_session_tracking),                     *)
(*   - the Sample Source (_fetch_pi_stats).                                *)
(* The specifications share the variables:                                 *)
(*   Spec         threads of one deployment working on the store           *)
(*   SpecLoad     _load_pi_full_history_from_disk on arbitrary log files   *)
(*   SpecDown     _downsample_entries on arbitrary inputs                  *)
(*   SpecSession  sequential _update_session_tracking calls                *)
(*   SpecRecord   the sampler recording points with absent fields          *)
(*   SpecLoop     the sampler loop from the start of the process           *)
(*   SpecLive     the threads of Spec under fair scheduling of the lock    *)
(*   SpecProbe    one _fetch_pi_stats call on arbitrary readings           *)
(*   SpecTrack    request handlers updating the session state concurrently *)
(***************************************************************************)
EXTENDS Integers, Sequences, FiniteSets, TLC

VARIABLES
    \* ---- history store ----
    clock,              \* datetime.now(timezone.utc), in time units
    PI_HISTORY,         \* the recent window (deque)
    PI_FULL_HISTORY,    \* the full history (list)
    PI_HISTORY_LOCK,    \* holder of the lock, or Free
    logFile,            \* pi_history_full.jsonl: [exists, lines]
    pc,                 \* position of every thread
    now,                \* _record_pi_history: local now, per thread
    raw_point,          \* the point a thread got from _fetch_pi_stats
    should_seed,        \* fetch_dashboard_data: local should_seed
    removed_full,       \* _record_pi_history: local removed_full
    pruned_snapshot,    \* _record_pi_history: local pruned_snapshot
    pi_history,         \* fetch_dashboard_data: entries behind "pi_history"
    pi_history_full,    \* fetch_dashboard_data: entries behind "pi_history_full"
    load_entries,       \* _load_pi_full_history_from_disk: local entries
    pruned_on_load,     \* _load_pi_full_history_from_disk: local pruned_on_load
    \* ---- observers of the store (not program state) ----
    committedRecent,    \* PI_HISTORY as the last finished critical section left it
    committedFull,      \* PI_FULL_HISTORY likewise
    lastCutoff,         \* <<recent cutoff, retention cutoff>> of the last writer
    diskFailures,       \* number of operations on the log file that failed
    ticks,              \* iterations of the sampler loop started in this run
    requests,           \* fetch_dashboard_data calls started in this run
    restarts,           \* number of process restarts
    preRestartFull,     \* PI_FULL_HISTORY when the process was last stopped
    loadInfo,           \* what the last load saw and did
    \* ---- downsampler ----
    d_entries,          \* the downsampler's input
    d_max_points,       \* its cap
    d_sampled,          \* _downsample_entries(d_entries, d_max_points)
    d_again,            \* _downsample_entries(d_sampled, d_max_points)
    d_series,           \* the full series built from d_entries
    d_pc,
    \* ---- session tracker ----
    sessFile,           \* session_state.json
    sessResult,         \* what the last _update_session_tracking returned
    uptimes,            \* the parsable uptimes passed so far, in call order
    sessClean,          \* started without a state file and no file error since
    sessFailures,       \* number of operations on the state file that failed
    \* ---- the Sample Source: one _fetch_pi_stats call ----
    p_pc,               \* position within the call
    p_check,            \* its argument check_connectivity
    p_psutil,           \* whether the psutil reads succeed
    p_targets,          \* what connecting to each probe target does
    p_sensors,          \* what the temperature and fan reads give
    p_tried,            \* probe targets tried so far
    p_online,           \* local online_status
    p_point,            \* the raw point returned
    \* ---- concurrent session tracking ----
    deviceUptime,       \* the uptime counter of the device
    deviceSessions,     \* the uptimes the device had at its reboots, in order
    u_calls,            \* _fetch_system_snapshot calls started
    u_pc,               \* position of every handler in _fetch_system_snapshot
    u_uptime,           \* payload.get("uptimeSeconds") as a handler fetched it
    u_state             \* _update_session_tracking: local state, per handler

storeVars == <<clock, PI_HISTORY, PI_FULL_HISTORY, PI_HISTORY_LOCK, logFile, pc,
               now, raw_point, should_seed, removed_full, pruned_snapshot,
               pi_history, pi_history_full, load_entries, pruned_on_load,
               committedRecent, committedFull, lastCutoff, diskFailures,
               ticks, requests, restarts, preRestartFull, loadInfo>>
downVars == <<d_entries, d_max_points, d_sampled, d_again, d_series, d_pc>>
sessVars == <<sessFile, sessResult, uptimes, sessClean, sessFailures>>
probeVars == <<p_pc, p_check, p_psutil, p_targets, p_sensors, p_tried, p_online, p_point>>
trackVars == <<deviceUptime, deviceSessions, u_calls, u_pc, u_uptime, u_state>>
extraVars == <<probeVars, trackVars>>
vars == <<storeVars, downVars, sessVars, extraVars>>

----------------------------------------------------------------------------
(* Bounds of the model *)

MaxLen == 5          \* longest input of the downsampler
MaxK == 4            \* largest max_points tried
MaxObj == 3          \* distinct entry objects in a downsampler input
MaxCalls == 4        \* _update_session_tracking calls in one run
MaxSessFailures == 1 \* session file errors in one run

----------------------------------------------------------------------------
(* Python values: <<tag, n>>.  None, float, int, bool, and str (a string    *)
(* that float() parses, "numstr", or one it rejects, "str").                *)

PyNone == <<"none", 0>>
PyFloat(n) == <<"float", n>>
PyInt(n) == <<"int", n>>
PyBool(b) == <<"bool", IF b THEN 1 ELSE 0>>
PyNumStr(n) == <<"numstr", n>>
PyStr == <<"str", 0>>

\* src/app.py:120  float(value), None on TypeError / ValueError
_safe_float(value) ==
    IF value[1] \in {"float", "int", "bool", "numstr"}
    THEN PyFloat(value[2])
    ELSE PyNone

Last(s) == s[Len(s)]
MaxOf(a, b) == IF a >= b THEN a ELSE b
\* math.ceil(a / b) for a >= 0, b >= 1
Ceil(a, b) == (a + b - 1) \div b

----------------------------------------------------------------------------
(* Downsampler, src/app.py:811-818.  Entries are Python objects; `is`       *)
(* compares object identity, so an input is a sequence of object names and  *)
(* the same object may occur more than once in a list.                      *)

\* entries[::step]
Stride(entries, step) ==
    [i \in 1..Ceil(Len(entries), step) |-> entries[(i - 1) * step + 1]]

\* the no-limit case (max_points <= 0) forgotten: the cap is taken as 1
DownsampleCapAlways(entries, max_points) ==
    LET k == MaxOf(1, max_points) IN
    IF Len(entries) <= k THEN entries
    ELSE LET step == MaxOf(1, Ceil(Len(entries), k))
             sampled == Stride(entries, step)
         IN IF sampled # <<>> /\ Last(sampled) # Last(entries)
            THEN Append(sampled, Last(entries)) ELSE sampled

\* the last entry is not appended
DownsampleNoLast(entries, max_points) ==
    IF max_points <= 0 \/ Len(entries) <= max_points THEN entries
    ELSE Stride(entries, MaxOf(1, Ceil(Len(entries), max_points)))

\* step rounded down instead of up
DownsampleFloorStep(entries, max_points) ==
    IF max_points <= 0 \/ Len(entries) <= max_points THEN entries
    ELSE LET step == MaxOf(1, Len(entries) \div max_points)
             sampled == Stride(entries, step)
         IN IF sampled # <<>> /\ Last(sampled) # Last(entries)
            THEN Append(sampled, Last(entries)) ELSE sampled

\* the last entry is appended whenever the last index taken is not the last
\* index, without looking at the objects
DownsampleByIndex(entries, max_points) ==
    IF max_points <= 0 \/ Len(entries) <= max_points THEN entries
    ELSE LET step == MaxOf(1, Ceil(Len(entries), max_points))
             sampled == Stride(entries, step)
         IN IF sampled # <<>> /\ (Len(sampled) - 1) * step + 1 # Len(entries)
            THEN Append(sampled, Last(entries)) ELSE sampled

_downsample_entries(entries, max_points) ==
    IF max_points <= 0 \/ Len(entries) <= max_points THEN entries
    ELSE LET step == MaxOf(1, Ceil(Len(entries), max_points))
             sampled == Stride(entries, step)
         IN IF sampled # <<>> /\ Last(sampled) # Last(entries)
            THEN Append(sampled, Last(entries)) ELSE sampled

----------------------------------------------------------------------------
(* History store: configuration.  One time unit stands for the recent       *)
(* window; the retention is scaled down to two units and the API point cap  *)
(* to two points, so that both evictions and the downsampling happen within *)
(* the bounds.                                                              *)

PI_HISTORY_WINDOW == 1
PI_FULL_HISTORY_RETENTION == 2
PI_FULL_HISTORY_MAX_API_POINTS == 2

MaxClock == 3        \* how far the clock advances
MaxTicks == 1        \* iterations of the sampler loop
MaxRequests == 2     \* fetch_dashboard_data calls
MaxRestarts == 1     \* process restarts
MaxDiskFailures == 1 \* failing operations on the log file
MaxLines == 3        \* lines of a log file found at startup (SpecLoad)
MaxHist == 2         \* entries in the store when SpecRecord starts
MaxLoopTicks == 3    \* iterations of the sampler loop in SpecLoop
MaxSnapshots == 3    \* _fetch_system_snapshot calls in SpecTrack
MaxReboots == 1      \* reboots of the device in SpecTrack
MaxUptime == 150     \* how far the device's uptime counter runs in one session

Sampler == "sampler"
Handlers == {"h1", "h2"}
Threads == {Sampler} \cup Handlers
Main == "main"
Free == "free"

\* ---- entries and log lines ----------------------------------------------
\* An entry in memory: ts is the instant of an aware datetime, the other
\* fields are Python values.  A log line is what json.loads makes of it:
\* kind "dict" with its fields (ts <<"isoaware", t>> for an ISO string with
\* an offset, <<"isonaive", t>> for one without, any other Python value
\* otherwise), or "blank", "torn" (no valid JSON), "nondict".

MkEntry(ts, point) ==
    [ts |-> ts, cpu |-> point.cpu, ram |-> point.ram,
     temperature |-> point.temperature, fan |-> point.fan, online |-> point.online]

IsoAware(t) == <<"isoaware", t>>
IsoNaive(t) == <<"isonaive", t>>

MkLine(kind, ts, cpu, online) ==
    [kind |-> kind, ts |-> ts, cpu |-> cpu, ram |-> PyFloat(50),
     temperature |-> PyNone, fan |-> PyNone, online |-> online]
NoFields(kind) ==
    [kind |-> kind, ts |-> PyNone, cpu |-> PyNone, ram |-> PyNone,
     temperature |-> PyNone, fan |-> PyNone, online |-> PyNone]
TornLine == NoFields("torn")
BlankLine == NoFields("blank")
NonDictLine == NoFields("nondict")

\* src/app.py:729-738 (and the same payload in 713-720)
_serialize_pi_entry(entry) ==
    [kind |-> "dict", ts |-> IsoAware(entry.ts), cpu |-> entry.cpu, ram |-> entry.ram,
     temperature |-> entry.temperature, fan |-> entry.fan, online |-> entry.online]

SerializeAll(entries) == [i \in 1..Len(entries) |-> _serialize_pi_entry(entries[i])]

\* src/app.py:673-680
ParseOnline(online_raw) ==
    IF online_raw[1] = "bool" THEN online_raw
    ELSE IF online_raw[1] \in {"int", "float"} /\ online_raw[2] \in {0, 1}
         THEN <<"bool", online_raw[2]>>
         ELSE PyNone

\* a line exactly at the retention cutoff is pruned as well
LineVerdictInclusive(line, retention_cutoff) ==
    IF line.kind # "dict" THEN "skip"
    ELSE IF line.ts[1] \notin {"isoaware", "isonaive"} THEN "skip"
    ELSE IF line.ts[2] <= retention_cutoff THEN "pruned"
    ELSE "keep"

\* src/app.py:649-671: "skip" for a line dropped without being counted,
\* "pruned" for one past the retention cutoff, "keep" otherwise
LineVerdict(line, retention_cutoff) ==
    IF line.kind # "dict" THEN "skip"
    ELSE IF line.ts[1] \notin {"isoaware", "isonaive"} THEN "skip"
    ELSE IF line.ts[2] < retention_cutoff THEN "pruned"
    ELSE "keep"

\* src/app.py:682-691
ParseLine(line) ==
    [ts |-> line.ts[2], cpu |-> _safe_float(line.cpu), ram |-> _safe_float(line.ram),
     temperature |-> _safe_float(line.temperature), fan |-> _safe_float(line.fan),
     online |-> ParseOnline(line.online)]

RECURSIVE ParseLines(_, _)
ParseLines(lines, retention_cutoff) ==
    IF lines = <<>> THEN <<>>
    ELSE IF LineVerdict(lines[1], retention_cutoff) = "keep"
         THEN <<ParseLine(lines[1])>> \o ParseLines(Tail(lines), retention_cutoff)
         ELSE ParseLines(Tail(lines), retention_cutoff)

CountVerdict(lines, retention_cutoff, verdict) ==
    Cardinality({i \in 1..Len(lines) : LineVerdict(lines[i], retention_cutoff) = verdict})

\* ---- eviction -----------------------------------------------------------
\* nothing is evicted
EvictNone(q, cutoff) == q

\* every entry older than the cutoff is removed, wherever it stands
EvictOlderAnywhere(q, cutoff) == SelectSeq(q, LAMBDA e : e.ts >= cutoff)

\* src/app.py:790-791 and 795-797
\* while q and q[0]["ts"] < cutoff: q.popleft()
RECURSIVE EvictFront(_, _)
EvictFront(q, cutoff) ==
    IF q # <<>> /\ q[1].ts < cutoff THEN EvictFront(Tail(q), cutoff) ELSE q

\* absent temperatures are left out of their column
PayloadDropsNulls(entries) ==
    [labels |-> [i \in 1..Len(entries) |-> IsoAware(entries[i].ts)],
     temperature |-> SelectSeq([i \in 1..Len(entries) |-> entries[i].temperature],
                               LAMBDA v : v # PyNone),
     cpu |-> [i \in 1..Len(entries) |-> entries[i].cpu],
     ram |-> [i \in 1..Len(entries) |-> entries[i].ram],
     fan |-> [i \in 1..Len(entries) |-> entries[i].fan],
     online |-> [i \in 1..Len(entries) |-> entries[i].online]]

\* ---- the query payload, src/app.py:751-777 -------------------------------
\* (every entry in memory has a datetime as ts, lines 684 and 784, so the
\* `if not ts: continue` of 761-762 skips nothing)
_build_pi_history_payload(entries) ==
    [labels |-> [i \in 1..Len(entries) |-> IsoAware(entries[i].ts)],
     temperature |-> [i \in 1..Len(entries) |-> entries[i].temperature],
     cpu |-> [i \in 1..Len(entries) |-> entries[i].cpu],
     ram |-> [i \in 1..Len(entries) |-> entries[i].ram],
     fan |-> [i \in 1..Len(entries) |-> entries[i].fan],
     online |-> [i \in 1..Len(entries) |-> entries[i].online]]

NoPayload == _build_pi_history_payload(<<>>)

\* src/app.py:823-825: the entries of a list are distinct objects, so the
\* downsampler's identity test compares positions
FullSeries(full, max_points) ==
    LET refs == [i \in 1..Len(full) |-> i]
        picked == _downsample_entries(refs, max_points)
    IN _build_pi_history_payload([j \in 1..Len(picked) |-> full[picked[j]]])

----------------------------------------------------------------------------
(* The log file.  A failing open leaves the file as it is; a write that     *)
(* fails after the open leaves what was written before the failure.         *)

NoFile == [exists |-> FALSE, lines |-> <<>>]
File(lines) == [exists |-> TRUE, lines |-> lines]

\* src/app.py:712-724  open("a"), json.dump, write("\n")
_persist_pi_full_history_entry(file, entry) ==
    File(file.lines \o <<_serialize_pi_entry(entry)>>)

\* src/app.py:725-726: the open failed, or the write failed within the line
PersistFailure(file) == {file, File(file.lines \o <<TornLine>>)}

\* src/app.py:741-746  open("w"), one line per entry
_rewrite_pi_full_history_file(file, entries) == File(SerializeAll(entries))

\* src/app.py:747-748: the open failed, or a write failed after j lines
RewriteFailure(file, entries) ==
    {file} \cup {File(SubSeq(SerializeAll(entries), 1, j)) : j \in 0..(Len(entries) - 1)}

----------------------------------------------------------------------------
(* The Sample Source, src/app.py:872-966: the raw point of a sample.        *)

Temperatures == {PyNone}
Fans == {PyNone}
\* src/app.py:881-886: True / False from the probe, None when it raised
ConnectivityResults == {PyBool(TRUE)}

Points(check_connectivity) ==
    {[cpu |-> PyFloat(42), ram |-> PyFloat(50), temperature |-> te, fan |-> fa, online |-> on] :
        te \in Temperatures, fa \in Fans,
        on \in (IF check_connectivity THEN ConnectivityResults ELSE {PyNone})}

NoPoint == [cpu |-> PyNone, ram |-> PyNone, temperature |-> PyNone, fan |-> PyNone,
            online |-> PyNone]

----------------------------------------------------------------------------
(* Startup: _load_pi_full_history_from_disk() and _start_pi_sampler(),      *)
(* src/app.py:1043-1044, run by the main thread before any other thread.    *)

NoLoad == [ran |-> FALSE, lines |-> <<>>, retention_cutoff |-> 0, full |-> <<>>,
           recent |-> <<>>, rewrites |-> 0, file |-> NoFile]

\* the sampler thread sleeps before its first sample
ServingSleepFirst == [t \in Threads \cup {Main} |->
                        IF t = Main THEN "serving" ELSE IF t = Sampler THEN "sleep" ELSE "idle"]

Serving == [t \in Threads \cup {Main} |->
              IF t = Main THEN "serving" ELSE IF t = Sampler THEN "fetch" ELSE "idle"]

\* src/app.py:705-707: the snapshot to rewrite is taken iff something was pruned
SnapshotAlways(pruned) == TRUE
LoadTakesSnapshot(pruned) == pruned > 0

loadFrame == <<clock, PI_HISTORY_LOCK, now, raw_point, should_seed, removed_full,
               pruned_snapshot, pi_history, pi_history_full, ticks, requests, restarts,
               preRestartFull>>

\* src/app.py:640-691: the file is read and parsed (no file: nothing to do)
LoadRead ==
    /\ pc[Main] = "load_read"
    /\ \/ /\ ~logFile.exists
          /\ pc' = Serving
          /\ loadInfo' = NoLoad
          /\ UNCHANGED <<load_entries, pruned_on_load>>
       \/ /\ logFile.exists
          /\ LET rc == clock - PI_FULL_HISTORY_RETENTION IN
             /\ load_entries' = ParseLines(logFile.lines, rc)
             /\ pruned_on_load' = CountVerdict(logFile.lines, rc, "pruned")
             /\ loadInfo' = [NoLoad EXCEPT !.lines = logFile.lines, !.retention_cutoff = rc]
          /\ pc' = [pc EXCEPT ![Main] = "load_install"]
    /\ UNCHANGED <<PI_HISTORY, PI_FULL_HISTORY, logFile, committedRecent, committedFull,
                   lastCutoff, diskFailures>>
    /\ UNCHANGED <<loadFrame, downVars, sessVars, extraVars>>

\* src/app.py:692-694: reading raises OSError; the containers stay as they are
LoadReadFails ==
    /\ pc[Main] = "load_read"
    /\ logFile.exists
    /\ diskFailures < MaxDiskFailures
    /\ diskFailures' = diskFailures + 1
    /\ pc' = Serving
    /\ loadInfo' = NoLoad
    /\ UNCHANGED <<PI_HISTORY, PI_FULL_HISTORY, logFile, committedRecent, committedFull,
                   lastCutoff, load_entries, pruned_on_load>>
    /\ UNCHANGED <<loadFrame, downVars, sessVars, extraVars>>

\* src/app.py:696-706: both containers are rebuilt under the lock; when lines
\* were pruned the snapshot to rewrite (the entries just installed) is kept
LoadInstall ==
    /\ pc[Main] = "load_install"
    /\ PI_HISTORY_LOCK = Free
    /\ LET cutoff == clock - PI_HISTORY_WINDOW
           full == load_entries
           recent == SelectSeq(load_entries, LAMBDA e : e.ts >= cutoff)
       IN /\ PI_FULL_HISTORY' = full
          /\ PI_HISTORY' = recent
          /\ committedFull' = full
          /\ committedRecent' = recent
          /\ lastCutoff' = <<cutoff, loadInfo.retention_cutoff>>
          /\ loadInfo' = [loadInfo EXCEPT
                            !.ran = TRUE, !.full = full, !.recent = recent,
                            !.file = logFile]
    /\ IF LoadTakesSnapshot(pruned_on_load)
       THEN /\ pc' = [pc EXCEPT ![Main] = "load_rewrite"]
            /\ UNCHANGED <<load_entries, pruned_on_load>>
       ELSE /\ pc' = Serving
            /\ load_entries' = <<>>
            /\ pruned_on_load' = 0
    /\ UNCHANGED <<logFile, diskFailures>>
    /\ UNCHANGED <<loadFrame, downVars, sessVars, extraVars>>

\* src/app.py:707-709: after the lock is released the log is rewritten from
\* the snapshot, leaving newFile
LoadRewriteWith(newFile) ==
    /\ pc[Main] = "load_rewrite"
    /\ logFile' = newFile
    /\ loadInfo' = [loadInfo EXCEPT !.rewrites = 1, !.file = newFile]
    /\ load_entries' = <<>>
    /\ pruned_on_load' = 0
    /\ pc' = Serving
    /\ UNCHANGED <<PI_HISTORY, PI_FULL_HISTORY, committedRecent, committedFull,
                   lastCutoff>>
    /\ UNCHANGED <<loadFrame, downVars, sessVars, extraVars>>

LoadRewrite ==
    /\ LoadRewriteWith(_rewrite_pi_full_history_file(logFile, load_entries))
    /\ UNCHANGED diskFailures

\* src/app.py:747-748 within the load: the rewrite raises OSError
LoadRewriteFails ==
    /\ diskFailures < MaxDiskFailures
    /\ diskFailures' = diskFailures + 1
    /\ \E f \in RewriteFailure(logFile, load_entries) : LoadRewriteWith(f)

\* time passes
Tick ==
    /\ clock < MaxClock
    /\ clock' = clock + 1
    /\ UNCHANGED <<PI_HISTORY, PI_FULL_HISTORY, PI_HISTORY_LOCK, logFile, pc, now,
                   raw_point, should_seed, removed_full, pruned_snapshot, pi_history,
                   pi_history_full, load_entries, pruned_on_load, committedRecent,
                   committedFull, lastCutoff, diskFailures, ticks, requests, restarts,
                   preRestartFull, loadInfo>>
    /\ UNCHANGED <<downVars, sessVars, extraVars>>

----------------------------------------------------------------------------
(* _record_pi_history, src/app.py:780-803, run by the sampler thread and by *)
(* a request handler that seeds.  now is read before the lock is taken; the *)
(* lock covers the appends and the evictions; the log is written after the  *)
(* lock is released.                                                        *)

loadVars == <<load_entries, pruned_on_load, loadInfo, restarts, preRestartFull>>
resultVars == <<pi_history, pi_history_full>>

AfterRecord(t) == IF t = Sampler THEN "sleep" ELSE "read_recent"

\* a point with every field absent is dropped like an empty one
RecordAppendSkipsAbsent(t) ==
    /\ pc[t] = "lock"
    /\ PI_HISTORY_LOCK = Free
    /\ PI_HISTORY_LOCK' = t
    /\ PI_HISTORY' = IF raw_point[t] = NoPoint THEN PI_HISTORY
                     ELSE Append(PI_HISTORY, MkEntry(now[t], raw_point[t]))
    /\ pc' = [pc EXCEPT ![t] = "evict"]
    /\ UNCHANGED <<clock, PI_FULL_HISTORY, logFile, now, raw_point, should_seed,
                   removed_full, pruned_snapshot, committedRecent, committedFull,
                   lastCutoff, diskFailures, ticks, requests>>
    /\ UNCHANGED <<loadVars, resultVars, downVars, sessVars, extraVars>>

\* src/app.py:787-788: the lock is taken and the entry appended to PI_HISTORY
RecordAppend(t) ==
    /\ pc[t] = "lock"
    /\ PI_HISTORY_LOCK = Free
    /\ PI_HISTORY_LOCK' = t
    /\ PI_HISTORY' = Append(PI_HISTORY, MkEntry(now[t], raw_point[t]))
    /\ pc' = [pc EXCEPT ![t] = "evict"]
    /\ UNCHANGED <<clock, PI_FULL_HISTORY, logFile, now, raw_point, should_seed,
                   removed_full, pruned_snapshot, committedRecent, committedFull,
                   lastCutoff, diskFailures, ticks, requests>>
    /\ UNCHANGED <<loadVars, resultVars, downVars, sessVars, extraVars>>

\* the log line is written before the lock is released
RecordEvictPersists(t) ==
    /\ pc[t] = "evict"
    /\ PI_HISTORY_LOCK = t
    /\ LET cutoff == now[t] - PI_HISTORY_WINDOW
           retention_cutoff == now[t] - PI_FULL_HISTORY_RETENTION
           recent == EvictFront(PI_HISTORY, cutoff)
           appended == Append(PI_FULL_HISTORY, MkEntry(now[t], raw_point[t]))
           full == EvictFront(appended, retention_cutoff)
           removed == Len(appended) - Len(full)
       IN /\ PI_HISTORY' = recent
          /\ PI_FULL_HISTORY' = full
          /\ removed_full' = [removed_full EXCEPT ![t] = removed]
          /\ pruned_snapshot' = [pruned_snapshot EXCEPT
                                   ![t] = IF removed > 0 THEN full ELSE <<>>]
          /\ committedRecent' = recent
          /\ committedFull' = full
          /\ lastCutoff' = <<cutoff, retention_cutoff>>
    /\ PI_HISTORY_LOCK' = Free
    /\ pc' = [pc EXCEPT ![t] = "persist"]
    /\ logFile' = _persist_pi_full_history_entry(logFile, MkEntry(now[t], raw_point[t]))
    /\ UNCHANGED <<clock, now, raw_point, should_seed, diskFailures, ticks,
                   requests>>
    /\ UNCHANGED <<loadVars, resultVars, downVars, sessVars, extraVars>>

\* entries evicted from the recent window count as removed from the full
\* history
RecordEvictCountsRecent(t) ==
    /\ pc[t] = "evict"
    /\ PI_HISTORY_LOCK = t
    /\ LET cutoff == now[t] - PI_HISTORY_WINDOW
           retention_cutoff == now[t] - PI_FULL_HISTORY_RETENTION
           recent == EvictFront(PI_HISTORY, cutoff)
           appended == Append(PI_FULL_HISTORY, MkEntry(now[t], raw_point[t]))
           full == EvictFront(appended, retention_cutoff)
           removed == (Len(appended) - Len(full)) + (Len(PI_HISTORY) - Len(recent))
       IN /\ PI_HISTORY' = recent
          /\ PI_FULL_HISTORY' = full
          /\ removed_full' = [removed_full EXCEPT ![t] = removed]
          /\ pruned_snapshot' = [pruned_snapshot EXCEPT
                                   ![t] = IF removed > 0 THEN full ELSE <<>>]
          /\ committedRecent' = recent
          /\ committedFull' = full
          /\ lastCutoff' = <<cutoff, retention_cutoff>>
    /\ PI_HISTORY_LOCK' = Free
    /\ pc' = [pc EXCEPT ![t] = "persist"]
    /\ UNCHANGED <<clock, logFile, now, raw_point, should_seed, diskFailures, ticks,
                   requests>>
    /\ UNCHANGED <<loadVars, resultVars, downVars, sessVars, extraVars>>

\* the two cutoffs are swapped: the recent window is evicted by the
\* retention and the full history by the recent window
RecordEvictSwapsCutoffs(t) ==
    /\ pc[t] = "evict"
    /\ PI_HISTORY_LOCK = t
    /\ LET cutoff == now[t] - PI_HISTORY_WINDOW
           retention_cutoff == now[t] - PI_FULL_HISTORY_RETENTION
           recent == EvictFront(PI_HISTORY, retention_cutoff)
           appended == Append(PI_FULL_HISTORY, MkEntry(now[t], raw_point[t]))
           full == EvictFront(appended, cutoff)
           removed == Len(appended) - Len(full)
       IN /\ PI_HISTORY' = recent
          /\ PI_FULL_HISTORY' = full
          /\ removed_full' = [removed_full EXCEPT ![t] = removed]
          /\ pruned_snapshot' = [pruned_snapshot EXCEPT
                                   ![t] = IF removed > 0 THEN full ELSE <<>>]
          /\ committedRecent' = recent
          /\ committedFull' = full
          /\ lastCutoff' = <<cutoff, retention_cutoff>>
    /\ PI_HISTORY_LOCK' = Free
    /\ pc' = [pc EXCEPT ![t] = "persist"]
    /\ UNCHANGED <<clock, logFile, now, raw_point, should_seed, diskFailures, ticks,
                   requests>>
    /\ UNCHANGED <<loadVars, resultVars, downVars, sessVars, extraVars>>

\* the lock is not released at the end of the with-block
RecordEvictKeepsLock(t) ==
    /\ pc[t] = "evict"
    /\ PI_HISTORY_LOCK = t
    /\ LET cutoff == now[t] - PI_HISTORY_WINDOW
           retention_cutoff == now[t] - PI_FULL_HISTORY_RETENTION
           recent == EvictFront(PI_HISTORY, cutoff)
           appended == Append(PI_FULL_HISTORY, MkEntry(now[t], raw_point[t]))
           full == EvictFront(appended, retention_cutoff)
           removed == Len(appended) - Len(full)
       IN /\ PI_HISTORY' = recent
          /\ PI_FULL_HISTORY' = full
          /\ removed_full' = [removed_full EXCEPT ![t] = removed]
          /\ pruned_snapshot' = [pruned_snapshot EXCEPT
                                   ![t] = IF removed > 0 THEN full ELSE <<>>]
          /\ committedRecent' = recent
          /\ committedFull' = full
          /\ lastCutoff' = <<cutoff, retention_cutoff>>
    /\ PI_HISTORY_LOCK' = t
    /\ pc' = [pc EXCEPT ![t] = "persist"]
    /\ UNCHANGED <<clock, logFile, now, raw_point, should_seed, diskFailures, ticks,
                   requests>>
    /\ UNCHANGED <<loadVars, resultVars, downVars, sessVars, extraVars>>

\* src/app.py:789-799: PI_HISTORY is evicted, the entry appended to
\* PI_FULL_HISTORY, that evicted, the snapshot taken, the lock released
RecordEvict(t) ==
    /\ pc[t] = "evict"
    /\ PI_HISTORY_LOCK = t
    /\ LET cutoff == now[t] - PI_HISTORY_WINDOW
           retention_cutoff == now[t] - PI_FULL_HISTORY_RETENTION
           recent == EvictFront(PI_HISTORY, cutoff)
           appended == Append(PI_FULL_HISTORY, MkEntry(now[t], raw_point[t]))
           full == EvictFront(appended, retention_cutoff)
           removed == Len(appended) - Len(full)
       IN /\ PI_HISTORY' = recent
          /\ PI_FULL_HISTORY' = full
          /\ removed_full' = [removed_full EXCEPT ![t] = removed]
          /\ pruned_snapshot' = [pruned_snapshot EXCEPT
                                   ![t] = IF removed > 0 THEN full ELSE <<>>]
          /\ committedRecent' = recent
          /\ committedFull' = full
          /\ lastCutoff' = <<cutoff, retention_cutoff>>
    /\ PI_HISTORY_LOCK' = Free
    /\ pc' = [pc EXCEPT ![t] = "persist"]
    /\ UNCHANGED <<clock, logFile, now, raw_point, should_seed, diskFailures, ticks,
                   requests>>
    /\ UNCHANGED <<loadVars, resultVars, downVars, sessVars, extraVars>>

recordFrame == <<clock, PI_HISTORY, PI_FULL_HISTORY, PI_HISTORY_LOCK, should_seed,
                 committedRecent, committedFull, lastCutoff, ticks, requests>>

\* src/app.py:800: the entry is appended to the log, leaving newFile
RecordPersistWith(t, newFile) ==
    /\ pc[t] = "persist"
    /\ logFile' = newFile
    /\ IF removed_full[t] > 0
       THEN /\ pc' = [pc EXCEPT ![t] = "rewrite"]
            /\ UNCHANGED <<now, raw_point>>
       ELSE /\ pc' = [pc EXCEPT ![t] = AfterRecord(t)]
            /\ now' = [now EXCEPT ![t] = 0]
            /\ raw_point' = [raw_point EXCEPT ![t] = NoPoint]
    /\ UNCHANGED <<removed_full, pruned_snapshot>>
    /\ UNCHANGED <<recordFrame, loadVars, resultVars, downVars, sessVars, extraVars>>

RecordPersist(t) ==
    /\ RecordPersistWith(t, _persist_pi_full_history_entry(logFile,
                                                           MkEntry(now[t], raw_point[t])))
    /\ UNCHANGED diskFailures

\* the OSError is not caught: the thread ends within record()
RecordPersistFailsRaises(t) ==
    /\ pc[t] = "persist"
    /\ diskFailures < MaxDiskFailures
    /\ diskFailures' = diskFailures + 1
    /\ pc' = [pc EXCEPT ![t] = "dead"]
    /\ UNCHANGED <<logFile, now, raw_point, removed_full, pruned_snapshot>>
    /\ UNCHANGED <<recordFrame, loadVars, resultVars, downVars, sessVars, extraVars>>

\* src/app.py:725-726: the append raises OSError, which is logged
RecordPersistFails(t) ==
    /\ diskFailures < MaxDiskFailures
    /\ diskFailures' = diskFailures + 1
    /\ \E f \in PersistFailure(logFile) : RecordPersistWith(t, f)

\* src/app.py:801-803: the log is rewritten from the snapshot, leaving newFile
RecordRewriteWith(t, newFile) ==
    /\ pc[t] = "rewrite"
    /\ logFile' = newFile
    /\ pc' = [pc EXCEPT ![t] = AfterRecord(t)]
    /\ now' = [now EXCEPT ![t] = 0]
    /\ raw_point' = [raw_point EXCEPT ![t] = NoPoint]
    /\ removed_full' = [removed_full EXCEPT ![t] = 0]
    /\ pruned_snapshot' = [pruned_snapshot EXCEPT ![t] = <<>>]
    /\ UNCHANGED <<recordFrame, loadVars, resultVars, downVars, sessVars, extraVars>>

RecordRewrite(t) ==
    /\ RecordRewriteWith(t, _rewrite_pi_full_history_file(logFile, pruned_snapshot[t]))
    /\ UNCHANGED diskFailures

RecordRewriteFails(t) ==
    /\ diskFailures < MaxDiskFailures
    /\ diskFailures' = diskFailures + 1
    /\ \E f \in RewriteFailure(logFile, pruned_snapshot[t]) : RecordRewriteWith(t, f)

----------------------------------------------------------------------------
(* The sampler loop, src/app.py:1027-1034.                                  *)

storeFrame == <<PI_HISTORY, PI_FULL_HISTORY, PI_HISTORY_LOCK, logFile,
                committedRecent, committedFull, lastCutoff, diskFailures>>

\* a failed fetch is tried again at once, without the sleep
SamplerFetchRetries(maxTicks) ==
    /\ pc[Sampler] = "fetch"
    /\ ticks < maxTicks
    /\ ticks' = ticks + 1
    /\ \/ /\ pc' = [pc EXCEPT ![Sampler] = "fetch"]
          /\ UNCHANGED <<now, raw_point>>
       \/ \E point \in Points(TRUE) :
            /\ raw_point' = [raw_point EXCEPT ![Sampler] = point]
            /\ now' = [now EXCEPT ![Sampler] = clock]
            /\ pc' = [pc EXCEPT ![Sampler] = "lock"]
    /\ UNCHANGED <<clock, should_seed, removed_full, pruned_snapshot, requests>>
    /\ UNCHANGED <<storeFrame, loadVars, resultVars, downVars, sessVars, extraVars>>

\* src/app.py:1030-1033: _fetch_pi_stats(check_connectivity=True) raises
\* RuntimeError, or returns the point _record_pi_history stamps
SamplerFetchUpTo(maxTicks) ==
    /\ pc[Sampler] = "fetch"
    /\ ticks < maxTicks
    /\ ticks' = ticks + 1
    /\ \/ /\ pc' = [pc EXCEPT ![Sampler] = "sleep"]
          /\ UNCHANGED <<now, raw_point>>
       \/ \E point \in Points(TRUE) :
            /\ raw_point' = [raw_point EXCEPT ![Sampler] = point]
            /\ now' = [now EXCEPT ![Sampler] = clock]
            /\ pc' = [pc EXCEPT ![Sampler] = "lock"]
    /\ UNCHANGED <<clock, should_seed, removed_full, pruned_snapshot, requests>>
    /\ UNCHANGED <<storeFrame, loadVars, resultVars, downVars, sessVars, extraVars>>

SamplerFetch == SamplerFetchUpTo(MaxTicks)

\* src/app.py:1034: time.sleep(PI_SAMPLE_INTERVAL_SECONDS)
SamplerSleep ==
    /\ pc[Sampler] = "sleep"
    /\ pc' = [pc EXCEPT ![Sampler] = "fetch"]
    /\ UNCHANGED <<clock, now, raw_point, should_seed, removed_full, pruned_snapshot,
                   ticks, requests>>
    /\ UNCHANGED <<storeFrame, loadVars, resultVars, downVars, sessVars, extraVars>>

\* src/app.py:923 and 981-986: _get_pi_temperature lets an OSError of
\* subprocess.check_output other than FileNotFoundError (vcgencmd present but
\* not executable) escape; _fetch_pi_stats does not catch it, and neither
\* does the loop's `except RuntimeError` (1032): the sampler thread ends
SamplerCrash ==
    /\ pc[Sampler] = "fetch"
    /\ ticks < MaxTicks
    /\ ticks' = ticks + 1
    /\ pc' = [pc EXCEPT ![Sampler] = "dead"]
    /\ UNCHANGED <<clock, now, raw_point, should_seed, removed_full, pruned_snapshot,
                   requests>>
    /\ UNCHANGED <<storeFrame, loadVars, resultVars, downVars, sessVars, extraVars>>

----------------------------------------------------------------------------
(* fetch_dashboard_data, src/app.py:394-422, run by request handlers.       *)

\* src/app.py:395-396: should_seed = not PI_HISTORY, under the lock
HandlerCheck(h) ==
    /\ pc[h] = "idle"
    /\ requests < MaxRequests
    /\ PI_HISTORY_LOCK = Free
    /\ requests' = requests + 1
    /\ should_seed' = [should_seed EXCEPT ![h] = (PI_HISTORY = <<>>)]
    /\ pc' = [pc EXCEPT ![h] = "fetch"]
    /\ UNCHANGED <<clock, now, raw_point, removed_full, pruned_snapshot, ticks>>
    /\ UNCHANGED <<storeFrame, loadVars, resultVars, downVars, sessVars, extraVars>>

\* the seed record is made whether or not the window was empty
HandlerFetchAlwaysSeeds(h) ==
    /\ pc[h] = "fetch"
    /\ \/ /\ pc' = [pc EXCEPT ![h] = "read_recent"]
          /\ UNCHANGED <<now, raw_point>>
       \/ /\ ~should_seed[h]
          /\ pc' = [pc EXCEPT ![h] = "read_recent"]
          /\ UNCHANGED <<now, raw_point>>
       \/ /\ TRUE
          /\ \E point \in Points(TRUE) :
               /\ raw_point' = [raw_point EXCEPT ![h] = point]
               /\ now' = [now EXCEPT ![h] = clock]
               /\ pc' = [pc EXCEPT ![h] = "lock"]
    /\ UNCHANGED <<clock, should_seed, removed_full, pruned_snapshot, ticks, requests>>
    /\ UNCHANGED <<storeFrame, loadVars, resultVars, downVars, sessVars, extraVars>>

\* src/app.py:397-401: _fetch_pi_stats(check_connectivity=should_seed), then
\* the seed record when should_seed; a RuntimeError skips the record
HandlerFetch(h) ==
    /\ pc[h] = "fetch"
    /\ \/ /\ pc' = [pc EXCEPT ![h] = "read_recent"]
          /\ UNCHANGED <<now, raw_point>>
       \/ /\ ~should_seed[h]
          /\ pc' = [pc EXCEPT ![h] = "read_recent"]
          /\ UNCHANGED <<now, raw_point>>
       \/ /\ should_seed[h]
          /\ \E point \in Points(TRUE) :
               /\ raw_point' = [raw_point EXCEPT ![h] = point]
               /\ now' = [now EXCEPT ![h] = clock]
               /\ pc' = [pc EXCEPT ![h] = "lock"]
    /\ UNCHANGED <<clock, should_seed, removed_full, pruned_snapshot, ticks, requests>>
    /\ UNCHANGED <<storeFrame, loadVars, resultVars, downVars, sessVars, extraVars>>

handlerFrame == <<clock, now, raw_point, should_seed, removed_full, pruned_snapshot,
                  ticks, requests>>

\* the recent series read without the lock
BuildSeriesUnlocked(h) ==
    /\ pc[h] = "read_recent"
    /\ pi_history' = [pi_history EXCEPT ![h] = _build_pi_history_payload(PI_HISTORY)]
    /\ pc' = [pc EXCEPT ![h] = "read_full"]
    /\ UNCHANGED pi_history_full
    /\ UNCHANGED <<handlerFrame, storeFrame, loadVars, downVars, sessVars, extraVars>>

\* src/app.py:806-808
_build_pi_history_series(h) ==
    /\ pc[h] = "read_recent"
    /\ PI_HISTORY_LOCK = Free
    /\ pi_history' = [pi_history EXCEPT ![h] = _build_pi_history_payload(PI_HISTORY)]
    /\ pc' = [pc EXCEPT ![h] = "read_full"]
    /\ UNCHANGED pi_history_full
    /\ UNCHANGED <<handlerFrame, storeFrame, loadVars, downVars, sessVars, extraVars>>

\* src/app.py:821-825
_build_pi_full_history_series(h) ==
    /\ pc[h] = "read_full"
    /\ PI_HISTORY_LOCK = Free
    /\ pi_history_full' = [pi_history_full EXCEPT
                             ![h] = FullSeries(PI_FULL_HISTORY,
                                               PI_FULL_HISTORY_MAX_API_POINTS)]
    /\ pc' = [pc EXCEPT ![h] = "done"]
    /\ UNCHANGED pi_history
    /\ UNCHANGED <<handlerFrame, storeFrame, loadVars, downVars, sessVars, extraVars>>

\* src/app.py:413-422: the response is returned
HandlerReturn(h) ==
    /\ pc[h] = "done"
    /\ pc' = [pc EXCEPT ![h] = "idle"]
    /\ pi_history' = [pi_history EXCEPT ![h] = NoPayload]
    /\ pi_history_full' = [pi_history_full EXCEPT ![h] = NoPayload]
    /\ should_seed' = [should_seed EXCEPT ![h] = FALSE]
    /\ UNCHANGED <<clock, now, raw_point, removed_full, pruned_snapshot, ticks, requests>>
    /\ UNCHANGED <<storeFrame, loadVars, downVars, sessVars, extraVars>>

----------------------------------------------------------------------------
(* The process is stopped while no request and no sampler tick is under way *)
(* and started again: memory is lost, the log file stays.                   *)

Quiescent ==
    /\ pc[Main] = "serving"
    /\ pc[Sampler] \in {"fetch", "sleep"}
    /\ \A h \in Handlers : pc[h] = "idle"

Booting == [t \in Threads \cup {Main} |-> IF t = Main THEN "load_read" ELSE "off"]

Restart ==
    /\ Quiescent
    /\ restarts < MaxRestarts
    /\ restarts' = restarts + 1
    /\ preRestartFull' = PI_FULL_HISTORY
    /\ PI_HISTORY' = <<>>
    /\ PI_FULL_HISTORY' = <<>>
    /\ committedRecent' = <<>>
    /\ committedFull' = <<>>
    /\ lastCutoff' = <<0, 0>>
    /\ loadInfo' = NoLoad
    /\ pc' = Booting
    /\ UNCHANGED <<clock, PI_HISTORY_LOCK, logFile, now, raw_point, should_seed,
                   removed_full, pruned_snapshot, pi_history, pi_history_full,
                   load_entries, pruned_on_load, diskFailures, ticks, requests>>
    /\ UNCHANGED <<downVars, sessVars, extraVars>>

----------------------------------------------------------------------------
(* Session tracker, src/app.py:828-869.  session_state.json is absent, holds *)
(* the object the tracker wrote ("dict"), holds valid JSON that is no       *)
(* object ("nondict"), or holds no valid JSON ("garbage").                  *)

UptimeVals == {0, 50, 100, 150, 200}
RawUptimes == {PyInt(u) : u \in UptimeVals} \cup {PyNumStr(50), PyNone, PyStr}

SessAbsent == [kind |-> "absent", total |-> 0, last |-> 0]
SessDict(total, last) == [kind |-> "dict", total |-> total, last |-> last]
NoResult == [kind |-> "none", current |-> 0, total |-> 0]

FreshState == [total_completed_seconds |-> 0, last_uptime |-> 0]

\* src/app.py:828-839, for a file that can be read: no file and invalid
\* JSON give the defaults
_load_session_state(file) ==
    IF file.kind = "dict"
    THEN [total_completed_seconds |-> file.total, last_uptime |-> file.last]
    ELSE FreshState

\* src/app.py:833-836: data.get on JSON that is no object raises
\* AttributeError, which the except clause of line 838 does not catch
LoadRaises(file) == file.kind = "nondict"

\* a reboot is also seen when the uptime has not moved
SessionStepCarryOnEqual(state, uptime_seconds) ==
    LET total_completed == IF uptime_seconds <= state.last_uptime
                           THEN state.total_completed_seconds + state.last_uptime
                           ELSE state.total_completed_seconds
    IN [state |-> [total_completed_seconds |-> total_completed,
                   last_uptime |-> uptime_seconds],
        result |-> [kind |-> "ok", current |-> uptime_seconds,
                    total |-> total_completed + uptime_seconds]]

\* the current uptime is carried instead of the last one
SessionStepCarryCurrent(state, uptime_seconds) ==
    LET total_completed == IF uptime_seconds < state.last_uptime
                           THEN state.total_completed_seconds + uptime_seconds
                           ELSE state.total_completed_seconds
    IN [state |-> [total_completed_seconds |-> total_completed,
                   last_uptime |-> uptime_seconds],
        result |-> [kind |-> "ok", current |-> uptime_seconds,
                    total |-> total_completed + uptime_seconds]]

\* src/app.py:856-869: the new state and the returned dict
SessionStep(state, uptime_seconds) ==
    LET total_completed == IF uptime_seconds < state.last_uptime
                           THEN state.total_completed_seconds + state.last_uptime
                           ELSE state.total_completed_seconds
    IN [state |-> [total_completed_seconds |-> total_completed,
                   last_uptime |-> uptime_seconds],
        result |-> [kind |-> "ok", current |-> uptime_seconds,
                    total |-> total_completed + uptime_seconds]]

\* src/app.py:842-845
_save_session_state(state) == SessDict(state.total_completed_seconds, state.last_uptime)

\* src/app.py:846-847: the open failed, or the write failed after truncation
SaveFailure(file) == {file, [kind |-> "garbage", total |-> 0, last |-> 0]}

sessFrame == <<storeVars, downVars, extraVars>>

\* the state is loaded and saved before the uptime is looked at
UpdateAbsentSaves ==
    /\ \E raw \in RawUptimes :
         /\ _safe_float(raw) = PyNone
         /\ sessResult' = [NoResult EXCEPT !.kind = "absent"]
    /\ sessFile' = _save_session_state(FreshState)
    /\ UNCHANGED <<uptimes, sessClean, sessFailures>>
    /\ UNCHANGED sessFrame

\* src/app.py:851-853: the uptime is missing or unparsable
UpdateAbsent ==
    /\ \E raw \in RawUptimes :
         /\ _safe_float(raw) = PyNone
         /\ sessResult' = [NoResult EXCEPT !.kind = "absent"]
    /\ UNCHANGED <<sessFile, uptimes, sessClean, sessFailures>>
    /\ UNCHANGED sessFrame

\* what the save of src/app.py:862-864 writes
SavedFile(raw, state) ==
    _save_session_state(SessionStep(state, _safe_float(raw)[2]).state)

\* src/app.py:850-869 with the state loaded as `state` and the file left as
\* newFile
UpdateWith(raw, state, newFile) ==
    /\ _safe_float(raw) # PyNone
    /\ ~LoadRaises(sessFile)
    /\ Len(uptimes) < MaxCalls
    /\ LET uptime_seconds == _safe_float(raw)[2]
           step == SessionStep(state, uptime_seconds)
       IN /\ sessResult' = step.result
          /\ uptimes' = Append(uptimes, uptime_seconds)
          /\ sessFile' = newFile
    /\ UNCHANGED sessFrame

_update_session_tracking ==
    /\ \E raw \in RawUptimes :
         UpdateWith(raw, _load_session_state(sessFile),
                    SavedFile(raw, _load_session_state(sessFile)))
    /\ UNCHANGED <<sessClean, sessFailures>>

\* src/app.py:838-839: reading the file raises OSError
UpdateLoadFails ==
    /\ sessFile.kind # "absent"
    /\ sessFailures < MaxSessFailures
    /\ sessFailures' = sessFailures + 1
    /\ sessClean' = FALSE
    /\ \E raw \in RawUptimes : UpdateWith(raw, FreshState, SavedFile(raw, FreshState))

\* src/app.py:846-847: saving raises OSError, which is swallowed
UpdateSaveFails ==
    /\ sessFailures < MaxSessFailures
    /\ sessFailures' = sessFailures + 1
    /\ sessClean' = FALSE
    /\ \E raw \in RawUptimes, f \in SaveFailure(sessFile) :
         UpdateWith(raw, _load_session_state(sessFile), f)

\* src/app.py:855 with a state file that is no JSON object: the call raises
UpdateRaises ==
    /\ LoadRaises(sessFile)
    /\ \E raw \in RawUptimes :
         /\ _safe_float(raw) # PyNone
         /\ sessResult' = [NoResult EXCEPT !.kind = "raised"]
    /\ UNCHANGED <<sessFile, uptimes, sessClean, sessFailures>>
    /\ UNCHANGED sessFrame

----------------------------------------------------------------------------
(* Values of the variables a specification does not use *)

DownIdle ==
    /\ d_entries = <<>>
    /\ d_max_points = 0
    /\ d_sampled = <<>>
    /\ d_again = <<>>
    /\ d_series = NoPayload
    /\ d_pc = "unused"

SessIdle ==
    /\ sessFile = SessAbsent
    /\ sessResult = NoResult
    /\ uptimes = <<>>
    /\ sessClean = TRUE
    /\ sessFailures = 0

ProbeIdle ==
    /\ p_pc = "unused"
    /\ p_check = FALSE
    /\ p_psutil = TRUE
    /\ p_targets = <<>>
    /\ p_sensors = [temperature |-> PyNone, fan |-> PyNone]
    /\ p_tried = 0
    /\ p_online = PyNone
    /\ p_point = NoPoint

TrackIdle ==
    /\ deviceUptime = 0
    /\ deviceSessions = <<>>
    /\ u_calls = 0
    /\ u_pc = [h \in Handlers |-> "unused"]
    /\ u_uptime = [h \in Handlers |-> PyNone]
    /\ u_state = [h \in Handlers |-> FreshState]

ExtraIdle == ProbeIdle /\ TrackIdle

StoreFresh ==
    /\ PI_HISTORY = <<>>
    /\ PI_FULL_HISTORY = <<>>
    /\ PI_HISTORY_LOCK = Free
    /\ pc = Booting
    /\ now = [t \in Threads |-> 0]
    /\ raw_point = [t \in Threads |-> NoPoint]
    /\ should_seed = [h \in Handlers |-> FALSE]
    /\ removed_full = [t \in Threads |-> 0]
    /\ pruned_snapshot = [t \in Threads |-> <<>>]
    /\ pi_history = [h \in Handlers |-> NoPayload]
    /\ pi_history_full = [h \in Handlers |-> NoPayload]
    /\ load_entries = <<>>
    /\ pruned_on_load = 0
    /\ committedRecent = <<>>
    /\ committedFull = <<>>
    /\ lastCutoff = <<0, 0>>
    /\ diskFailures = 0
    /\ ticks = 0
    /\ requests = 0
    /\ restarts = 0
    /\ preRestartFull = <<>>
    /\ loadInfo = NoLoad

----------------------------------------------------------------------------
(* Spec: a fresh deployment (no log file yet); the main thread loads and    *)
(* starts the sampler, then the sampler and the request handlers run.       *)

Init ==
    /\ clock = 0
    /\ logFile = NoFile
    /\ StoreFresh
    /\ DownIdle
    /\ SessIdle
    /\ ExtraIdle

Next ==
    \/ LoadRead
    \/ LoadInstall
    \/ LoadRewrite
    \/ Tick
    \/ SamplerFetch
    \/ SamplerSleep
    \/ \E t \in Threads : RecordAppend(t)
    \/ \E t \in Threads : RecordEvict(t)
    \/ \E t \in Threads : RecordPersist(t)
    \/ \E t \in Threads : RecordRewrite(t)
    \/ \E h \in Handlers : HandlerCheck(h)
    \/ \E h \in Handlers : HandlerFetch(h)
    \/ \E h \in Handlers : _build_pi_history_series(h)
    \/ \E h \in Handlers : _build_pi_full_history_series(h)
    \/ \E h \in Handlers : HandlerReturn(h)
    \/ Restart

Spec == Init /\ [][Next]_vars

----------------------------------------------------------------------------
(* SpecLoad: the process starts on a log file with arbitrary lines.         *)

Seqs(S, n) == UNION {[1..k -> S] : k \in 0..n}

LoadLines ==
    {MkLine("dict", IsoAware(t), PyFloat(42), PyBool(TRUE)) : t \in 0..MaxClock}
    \cup {MkLine("dict", IsoNaive(1), PyInt(42), PyInt(1)),
          MkLine("dict", PyNone, PyFloat(42), PyNone),
          MkLine("dict", PyStr, PyFloat(42), PyNone),
          TornLine, BlankLine, NonDictLine}

InitLoad ==
    /\ clock \in 0..MaxClock
    /\ logFile \in {NoFile} \cup {File(ls) : ls \in Seqs(LoadLines, MaxLines)}
    /\ StoreFresh
    /\ DownIdle
    /\ SessIdle
    /\ ExtraIdle

NextLoad ==
    \/ LoadRead
    \/ LoadReadFails
    \/ LoadInstall
    \/ LoadRewrite
    \/ LoadRewriteFails
    \/ Tick

SpecLoad == InitLoad /\ [][NextLoad]_vars

----------------------------------------------------------------------------
(* SpecDown: the downsampler and the full series on arbitrary inputs.       *)

\* entry i: some fields present, others absent
DownEntry(i) ==
    MkEntry(i, [NoPoint EXCEPT !.cpu = IF i = 3 THEN PyNone ELSE PyFloat(i),
                               !.temperature = IF i = 2 THEN PyNone ELSE PyFloat(50 + i),
                               !.online = IF i = 1 THEN PyBool(TRUE) ELSE PyNone])
DownObjs == {DownEntry(i) : i \in 1..MaxObj}

InitDown ==
    /\ d_entries \in Seqs(DownObjs, MaxLen)
    /\ d_max_points \in -1..MaxK
    /\ d_sampled = <<>>
    /\ d_again = <<>>
    /\ d_series = NoPayload
    /\ d_pc = "start"
    /\ clock = 0
    /\ logFile = NoFile
    /\ StoreFresh
    /\ SessIdle
    /\ ExtraIdle

Downsample ==
    /\ d_pc = "start"
    /\ d_sampled' = _downsample_entries(d_entries, d_max_points)
    /\ d_pc' = "sampled"
    /\ UNCHANGED <<d_entries, d_max_points, d_again, d_series>>
    /\ UNCHANGED <<storeVars, sessVars, extraVars>>

DownsampleAgain ==
    /\ d_pc = "sampled"
    /\ d_again' = _downsample_entries(d_sampled, d_max_points)
    /\ d_pc' = "again"
    /\ UNCHANGED <<d_entries, d_max_points, d_sampled, d_series>>
    /\ UNCHANGED <<storeVars, sessVars, extraVars>>

\* _build_pi_full_history_series on a full history d_entries, cap d_max_points
SnapshotFull ==
    /\ d_pc = "start"
    /\ d_series' = FullSeries(d_entries, d_max_points)
    /\ d_pc' = "series"
    /\ UNCHANGED <<d_entries, d_max_points, d_sampled, d_again>>
    /\ UNCHANGED <<storeVars, sessVars, extraVars>>

\* _build_pi_history_series on a recent window d_entries
SnapshotRecent ==
    /\ d_pc = "start"
    /\ d_series' = _build_pi_history_payload(d_entries)
    /\ d_pc' = "recent"
    /\ UNCHANGED <<d_entries, d_max_points, d_sampled, d_again>>
    /\ UNCHANGED <<storeVars, sessVars, extraVars>>

NextDown == Downsample \/ DownsampleAgain \/ SnapshotFull \/ SnapshotRecent

SpecDown == InitDown /\ [][NextDown]_vars

----------------------------------------------------------------------------
(* SpecSession: _update_session_tracking called again and again, one call   *)
(* at a time.                                                               *)

InitSession ==
    /\ sessFile \in {SessAbsent,
                     [kind |-> "garbage", total |-> 0, last |-> 0],
                     [kind |-> "nondict", total |-> 0, last |-> 0]}
    /\ sessResult = NoResult
    /\ uptimes = <<>>
    /\ sessClean = (sessFile = SessAbsent)
    /\ sessFailures = 0
    /\ clock = 0
    /\ logFile = NoFile
    /\ StoreFresh
    /\ DownIdle
    /\ ExtraIdle

NextSession ==
    \/ UpdateAbsent
    \/ _update_session_tracking
    \/ UpdateLoadFails
    \/ UpdateSaveFails
    \/ UpdateRaises

SpecSession == InitSession /\ [][NextSession]_vars

----------------------------------------------------------------------------
(* SpecRecord: the sampler thread of a running process is about to record a *)
(* point with any subset of its fields absent, on a store holding up to     *)
(* MaxHist entries, and goes on with its loop; writes to the log can fail   *)
(* and a sensor read can raise.  No request is served meanwhile.            *)

\* every subset of the fields of a raw point absent (None)
AnyPoints ==
    {[cpu |-> c, ram |-> r, temperature |-> te, fan |-> fa, online |-> on] :
        c \in {PyFloat(42), PyNone}, r \in {PyFloat(50), PyNone},
        te \in {PyFloat(55), PyNone}, fa \in {PyFloat(30), PyNone},
        on \in {PyBool(TRUE), PyNone}}

\* full histories earlier records leave behind: oldest first, the front
\* within the retention of the last entry
Histories ==
    {q \in Seqs({MkEntry(t, p) : t \in 0..MaxClock, p \in Points(TRUE)}, MaxHist) :
        /\ \A i \in 1..(Len(q) - 1) : q[i].ts <= q[i + 1].ts
        /\ q # <<>> => q[1].ts >= Last(q).ts - PI_FULL_HISTORY_RETENTION}

InitRecord ==
    /\ clock \in 0..MaxClock
    /\ PI_FULL_HISTORY \in {q \in Histories : q # <<>> => Last(q).ts <= clock}
    /\ PI_HISTORY = SelectSeq(PI_FULL_HISTORY,
                              LAMBDA e : e.ts >= Last(PI_FULL_HISTORY).ts - PI_HISTORY_WINDOW)
    /\ committedRecent = PI_HISTORY
    /\ committedFull = PI_FULL_HISTORY
    /\ lastCutoff = IF PI_FULL_HISTORY = <<>> THEN <<0, 0>>
                    ELSE <<Last(PI_FULL_HISTORY).ts - PI_HISTORY_WINDOW,
                           Last(PI_FULL_HISTORY).ts - PI_FULL_HISTORY_RETENTION>>
    /\ logFile = IF PI_FULL_HISTORY = <<>> THEN NoFile
                 ELSE File(SerializeAll(PI_FULL_HISTORY))
    /\ PI_HISTORY_LOCK = Free
    /\ pc = [Serving EXCEPT ![Sampler] = "lock"]
    /\ now = [t \in Threads |-> IF t = Sampler THEN clock ELSE 0]
    /\ raw_point \in {[t \in Threads |-> IF t = Sampler THEN p ELSE NoPoint] :
                          p \in AnyPoints}
    /\ should_seed = [h \in Handlers |-> FALSE]
    /\ removed_full = [t \in Threads |-> 0]
    /\ pruned_snapshot = [t \in Threads |-> <<>>]
    /\ pi_history = [h \in Handlers |-> NoPayload]
    /\ pi_history_full = [h \in Handlers |-> NoPayload]
    /\ load_entries = <<>>
    /\ pruned_on_load = 0
    /\ diskFailures = 0
    /\ ticks = 0
    /\ requests = 0
    /\ restarts = 0
    /\ preRestartFull = <<>>
    /\ loadInfo = NoLoad
    /\ DownIdle
    /\ SessIdle
    /\ ExtraIdle

NextRecord ==
    \/ Tick
    \/ SamplerFetch
    \/ SamplerCrash
    \/ SamplerSleep
    \/ \E t \in Threads : RecordAppend(t)
    \/ \E t \in Threads : RecordEvict(t)
    \/ \E t \in Threads : RecordPersist(t)
    \/ \E t \in Threads : RecordPersistFails(t)
    \/ \E t \in Threads : RecordRewrite(t)
    \/ \E t \in Threads : RecordRewriteFails(t)

SpecRecord == InitRecord /\ [][NextRecord]_vars

----------------------------------------------------------------------------
(* SpecLoop: a fresh deployment starts and the sampler loop runs for        *)
(* several iterations; no request is served meanwhile.                      *)

NextLoop ==
    \/ LoadRead
    \/ Tick
    \/ SamplerFetchUpTo(MaxLoopTicks)
    \/ SamplerSleep
    \/ RecordAppend(Sampler)
    \/ RecordEvict(Sampler)
    \/ RecordPersist(Sampler)
    \/ RecordRewrite(Sampler)

SpecLoop == Init /\ [][NextLoop]_vars

----------------------------------------------------------------------------
(* SpecLive: the threads of Spec under fair scheduling of the lock.  A      *)
(* thread inside a with-block goes on to its end (weak fairness: nothing in *)
(* the block waits for anything); a thread that waits for the lock gets it  *)
(* if it is free again and again (strong fairness).  Nothing is assumed     *)
(* about the steps outside the lock: the sampler may sleep, wait for the    *)
(* Sample Source or write the log for ever, and so may a handler.  The      *)
(* process is a fresh deployment, or one that recorded an entry a retention *)
(* and more ago, so that the next record compacts the log; the clock stands *)
(* still meanwhile.                                                         *)

InitLive ==
    \/ Init
    \/ /\ clock = MaxClock
       /\ PI_FULL_HISTORY \in {<<MkEntry(0, p)>> : p \in Points(TRUE)}
       /\ PI_HISTORY = PI_FULL_HISTORY
       /\ committedRecent = PI_HISTORY
       /\ committedFull = PI_FULL_HISTORY
       /\ lastCutoff = <<0 - PI_HISTORY_WINDOW, 0 - PI_FULL_HISTORY_RETENTION>>
       /\ logFile = File(SerializeAll(PI_FULL_HISTORY))
       /\ PI_HISTORY_LOCK = Free
       /\ pc = Serving
       /\ now = [t \in Threads |-> 0]
       /\ raw_point = [t \in Threads |-> NoPoint]
       /\ should_seed = [h \in Handlers |-> FALSE]
       /\ removed_full = [t \in Threads |-> 0]
       /\ pruned_snapshot = [t \in Threads |-> <<>>]
       /\ pi_history = [h \in Handlers |-> NoPayload]
       /\ pi_history_full = [h \in Handlers |-> NoPayload]
       /\ load_entries = <<>>
       /\ pruned_on_load = 0
       /\ diskFailures = 0
       /\ ticks = 0
       /\ requests = 0
       /\ restarts = 0
       /\ preRestartFull = <<>>
       /\ loadInfo = NoLoad
       /\ DownIdle
       /\ SessIdle
       /\ ExtraIdle

NextLive ==
    \/ LoadRead
    \/ SamplerFetch
    \/ SamplerSleep
    \/ \E t \in Threads : RecordAppend(t)
    \/ \E t \in Threads : RecordEvict(t)
    \/ \E t \in Threads : RecordPersist(t)
    \/ \E t \in Threads : RecordRewrite(t)
    \/ \E h \in Handlers : HandlerCheck(h)
    \/ \E h \in Handlers : HandlerFetch(h)
    \/ \E h \in Handlers : _build_pi_history_series(h)
    \/ \E h \in Handlers : _build_pi_full_history_series(h)
    \/ \E h \in Handlers : HandlerReturn(h)

LockFairness ==
    /\ \A t \in Threads : WF_vars(RecordEvict(t))
    /\ \A t \in Threads : SF_vars(RecordAppend(t))
    /\ \A h \in Handlers : SF_vars(_build_pi_history_series(h))
    /\ \A h \in Handlers : SF_vars(_build_pi_full_history_series(h))

SpecLive == InitLive /\ [][NextLive]_vars /\ LockFairness

----------------------------------------------------------------------------
(* SpecProbe: one call of _fetch_pi_stats, src/app.py:872-966, with the     *)
(* connectivity probe of 151-158, on arbitrary readings.  Connecting to a   *)
(* target succeeds ("connects"), raises OSError ("oserror", which includes  *)
(* timeouts and resolution errors), or raises another exception ("raises"). *)

CONNECTIVITY_TEST_TARGETS == <<"1.1.1.1", "8.8.8.8">>
ConnectOutcomes == {"connects", "oserror", "raises"}

\* the vcgencmd call raises an OSError that is not FileNotFoundError
SensorRaises == <<"raises", 0>>

probeFrame == <<storeVars, downVars, sessVars, trackVars>>

InitProbe ==
    /\ p_pc = "psutil"
    /\ p_check \in BOOLEAN
    /\ p_psutil \in BOOLEAN
    /\ p_targets \in [1..Len(CONNECTIVITY_TEST_TARGETS) -> ConnectOutcomes]
    /\ p_sensors \in [temperature : {PyNone, PyFloat(55), SensorRaises},
                      fan : {PyNone, PyFloat(30)}]
    /\ p_tried = 0
    /\ p_online = PyNone
    /\ p_point = NoPoint
    /\ clock = 0
    /\ logFile = NoFile
    /\ StoreFresh
    /\ DownIdle
    /\ SessIdle
    /\ TrackIdle

\* src/app.py:873-882: the psutil reads; any exception becomes RuntimeError;
\* online_status starts as None and the probe is made iff check_connectivity
ReadPsutil ==
    /\ p_pc = "psutil"
    /\ p_pc' = IF ~p_psutil THEN "raised" ELSE IF p_check THEN "probe" ELSE "sensors"
    /\ UNCHANGED <<p_check, p_psutil, p_targets, p_sensors, p_tried, p_online, p_point>>
    /\ UNCHANGED probeFrame

\* an exception of the probe is taken for "offline"
ProbeTargetRaiseIsOffline ==
    /\ p_pc = "probe"
    /\ p_tried' = p_tried + 1
    /\ LET outcome == p_targets[p_tried + 1] IN
       \/ /\ outcome = "connects"
          /\ p_online' = PyBool(TRUE)
          /\ p_pc' = "sensors"
       \/ /\ outcome = "oserror"
          /\ IF p_tried + 1 = Len(p_targets)
             THEN p_online' = PyBool(FALSE) /\ p_pc' = "sensors"
             ELSE UNCHANGED <<p_online, p_pc>>
       \/ /\ outcome = "raises"
          /\ p_online' = PyBool(FALSE)
          /\ p_pc' = "sensors"
    /\ UNCHANGED <<p_check, p_psutil, p_targets, p_sensors, p_point>>
    /\ UNCHANGED probeFrame

\* src/app.py:152-158 and 883-886: one round of the loop over the targets.
\* A connection returns True at once; OSError goes on to the next target and
\* to `return False` after the last; any other exception leaves the loop and
\* is caught by the caller, online_status staying None
ProbeTarget ==
    /\ p_pc = "probe"
    /\ p_tried' = p_tried + 1
    /\ LET outcome == p_targets[p_tried + 1] IN
       \/ /\ outcome = "connects"
          /\ p_online' = PyBool(TRUE)
          /\ p_pc' = "sensors"
       \/ /\ outcome = "oserror"
          /\ IF p_tried + 1 = Len(p_targets)
             THEN p_online' = PyBool(FALSE) /\ p_pc' = "sensors"
             ELSE UNCHANGED <<p_online, p_pc>>
       \/ /\ outcome = "raises"
          /\ p_online' = PyNone
          /\ p_pc' = "sensors"
    /\ UNCHANGED <<p_check, p_psutil, p_targets, p_sensors, p_point>>
    /\ UNCHANGED probeFrame

\* src/app.py:923-966: the temperature and fan reads and the raw point; an
\* exception _get_pi_temperature does not catch (981-986) ends the call
ReadSensors ==
    /\ p_pc = "sensors"
    /\ IF p_sensors.temperature = SensorRaises
       THEN /\ p_pc' = "crashed"
            /\ UNCHANGED p_point
       ELSE /\ p_pc' = "returned"
            /\ p_point' = [cpu |-> PyFloat(42), ram |-> PyFloat(50),
                           temperature |-> p_sensors.temperature,
                           fan |-> p_sensors.fan, online |-> p_online]
    /\ UNCHANGED <<p_check, p_psutil, p_targets, p_sensors, p_tried, p_online>>
    /\ UNCHANGED probeFrame

NextProbe == ReadPsutil \/ ProbeTarget \/ ReadSensors

SpecProbe == InitProbe /\ [][NextProbe]_vars

----------------------------------------------------------------------------
(* SpecTrack: request handlers run _fetch_system_snapshot (src/app.py:      *)
(* 507-528) concurrently: each fetches the device's uptime and passes it to *)
(* _update_session_tracking, which loads the state file, computes and saves *)
(* without any lock.  The device runs and reboots meanwhile.  The state     *)
(* file is absent at first and no file operation fails.                     *)

UptimeStep == 50

trackFrame == <<storeVars, downVars, probeVars, sessResult, uptimes, sessClean,
                sessFailures>>

InitTrack ==
    /\ deviceUptime = UptimeStep
    /\ deviceSessions = <<>>
    /\ u_calls = 0
    /\ u_pc = [h \in Handlers |-> "idle"]
    /\ u_uptime = [h \in Handlers |-> PyNone]
    /\ u_state = [h \in Handlers |-> FreshState]
    /\ clock = 0
    /\ logFile = NoFile
    /\ StoreFresh
    /\ DownIdle
    /\ SessIdle
    /\ ProbeIdle

\* the device's uptime counter advances
DeviceRuns ==
    /\ deviceUptime + UptimeStep <= MaxUptime
    /\ deviceUptime' = deviceUptime + UptimeStep
    /\ UNCHANGED <<deviceSessions, u_calls, u_pc, u_uptime, u_state, sessFile>>
    /\ UNCHANGED trackFrame

\* the device reboots: its session ends and the counter starts again
DeviceReboots ==
    /\ Len(deviceSessions) < MaxReboots
    /\ deviceUptime > 0
    /\ deviceSessions' = Append(deviceSessions, deviceUptime)
    /\ deviceUptime' = 0
    /\ UNCHANGED <<u_calls, u_pc, u_uptime, u_state, sessFile>>
    /\ UNCHANGED trackFrame

\* src/app.py:508-511 and 528: the device answers with its uptime, which is
\* passed to _update_session_tracking
FetchUptime(h) ==
    /\ u_pc[h] = "idle"
    /\ u_calls < MaxSnapshots
    /\ u_calls' = u_calls + 1
    /\ u_uptime' = [u_uptime EXCEPT ![h] = PyInt(deviceUptime)]
    /\ u_pc' = [u_pc EXCEPT ![h] = "load"]
    /\ UNCHANGED <<deviceUptime, deviceSessions, u_state, sessFile>>
    /\ UNCHANGED trackFrame

\* src/app.py:851-855: the uptime parses and the state is loaded
TrackLoad(h) ==
    /\ u_pc[h] = "load"
    /\ _safe_float(u_uptime[h]) # PyNone
    /\ ~LoadRaises(sessFile)
    /\ u_state' = [u_state EXCEPT ![h] = _load_session_state(sessFile)]
    /\ u_pc' = [u_pc EXCEPT ![h] = "save"]
    /\ UNCHANGED <<deviceUptime, deviceSessions, u_calls, u_uptime, sessFile>>
    /\ UNCHANGED trackFrame

\* src/app.py:856-869: the new state is computed from the loaded one and
\* saved; the call returns
TrackSave(h) ==
    /\ u_pc[h] = "save"
    /\ sessFile' = SavedFile(u_uptime[h], u_state[h])
    /\ u_pc' = [u_pc EXCEPT ![h] = "idle"]
    /\ u_uptime' = [u_uptime EXCEPT ![h] = PyNone]
    /\ u_state' = [u_state EXCEPT ![h] = FreshState]
    /\ UNCHANGED <<deviceUptime, deviceSessions, u_calls>>
    /\ UNCHANGED trackFrame

NextTrack ==
    \/ DeviceRuns
    \/ DeviceReboots
    \/ \E h \in Handlers : FetchUptime(h)
    \/ \E h \in Handlers : TrackLoad(h)
    \/ \E h \in Handlers : TrackSave(h)

SpecTrack == InitTrack /\ [][NextTrack]_vars

----------------------------------------------------------------------------
(* Properties                                                               *)

Range(q) == {q[i] : i \in 1..Len(q)}

\* C1, as stated: whenever a reader can take the lock, every entry of
\* RecentWindow is no older than the reader's now minus the recent window,
\* and every entry of FullHistory no older than now minus the retention.
C1_EntriesWithinReadersNow ==
    PI_HISTORY_LOCK = Free =>
        /\ \A e \in Range(PI_HISTORY) : e.ts >= clock - PI_HISTORY_WINDOW
        /\ \A e \in Range(PI_FULL_HISTORY) : e.ts >= clock - PI_FULL_HISTORY_RETENTION

\* C1, amended: whenever a reader can take the lock, the front entry of
\* RecentWindow is no older than the cutoff (its now minus the recent window)
\* of the last record or load that went through the lock, and the front
\* entry of FullHistory no older than that writer's retention cutoff.
C1_FrontWithinWritersCutoff ==
    PI_HISTORY_LOCK = Free =>
        /\ PI_HISTORY # <<>> => PI_HISTORY[1].ts >= lastCutoff[1]
        /\ PI_FULL_HISTORY # <<>> => PI_FULL_HISTORY[1].ts >= lastCutoff[2]

\* a record has evicted from RecentWindow what FullHistory still holds
C1_Witness ==
    /\ PI_HISTORY_LOCK = Free
    /\ restarts = 0
    /\ lastCutoff[1] >= 1
    /\ Len(PI_HISTORY) >= 1
    /\ Len(PI_FULL_HISTORY) > Len(PI_HISTORY)
    /\ PI_FULL_HISTORY[1].ts < lastCutoff[1]

\* C2: every snapshot read, of the recent series or of the full series,
\* returns the container exactly as the last completed append-and-evict
\* step (or the load) left it, never a container a record is working on.
C2_SnapshotSeesCommitted ==
    [][\A h \in Handlers :
         /\ (pc[h] = "read_recent" /\ pc'[h] = "read_full")
               => pi_history'[h] = _build_pi_history_payload(committedRecent)
         /\ (pc[h] = "read_full" /\ pc'[h] = "done")
               => pi_history_full'[h] =
                      FullSeries(committedFull, PI_FULL_HISTORY_MAX_API_POINTS)]_vars

\* a handler has read the recent series while another thread's record is
\* between its critical section and the end of its disk writes
C2_Witness ==
    \E h \in Handlers, t \in Threads :
        /\ t # h
        /\ pc[h] = "read_full"
        /\ pc[t] \in {"persist", "rewrite"}
        /\ Len(PI_HISTORY) >= 1
        /\ pi_history[h] = _build_pi_history_payload(PI_HISTORY)

\* C3: after a restart and a load without disk failure, FullHistory is what
\* it was before the restart minus the entries past the retention cutoff,
\* in the same order.
C3_RoundTrip ==
    (restarts > 0 /\ loadInfo.ran /\ diskFailures = 0) =>
        loadInfo.full = SelectSeq(preRestartFull,
                                  LAMBDA e : e.ts >= loadInfo.retention_cutoff)

\* C4: whenever no record() is in progress and no disk write has failed, the
\* lines of the log are the entries of FullHistory, in the same order.
C4_LogMirrorsFullHistory ==
    (Quiescent /\ diskFailures = 0) => logFile.lines = SerializeAll(PI_FULL_HISTORY)

WellFormedLine(line) ==
    /\ line.kind = "dict"
    /\ line.ts[1] = "isoaware"
    /\ \A v \in {line.cpu, line.ram, line.temperature, line.fan} : v[1] \in {"float", "none"}
    /\ line.online[1] \in {"bool", "none"}

Loaded == pc[Main] = "serving" /\ loadInfo.ran

\* C5: a load (without disk failure) of a well-formed log of n lines, k of
\* them older than the retention cutoff at any positions, leaves the n-k
\* other entries in FullHistory in file order, and leaves exactly their n-k
\* lines in the log, rewriting it when k >= 1.
C5_LoadKeepsSurvivors ==
    (Loaded /\ diskFailures = 0 /\ \A l \in Range(loadInfo.lines) : WellFormedLine(l)) =>
        LET old(l) == l.ts[2] < loadInfo.retention_cutoff
            survivors == SelectSeq(loadInfo.lines, LAMBDA l : ~old(l))
            k == Cardinality({i \in 1..Len(loadInfo.lines) : old(loadInfo.lines[i])})
        IN /\ SerializeAll(PI_FULL_HISTORY) = survivors
           /\ Len(PI_FULL_HISTORY) = Len(loadInfo.lines) - k
           /\ logFile.lines = survivors
           /\ k >= 1 => loadInfo.rewrites = 1

\* three well-formed lines, the middle one past the retention cutoff
C5_Witness ==
    /\ Loaded
    /\ diskFailures = 0
    /\ Len(loadInfo.lines) = 3
    /\ \A l \in Range(loadInfo.lines) : WellFormedLine(l)
    /\ loadInfo.lines[1].ts[2] >= loadInfo.retention_cutoff
    /\ loadInfo.lines[2].ts[2] < loadInfo.retention_cutoff
    /\ loadInfo.lines[3].ts[2] >= loadInfo.retention_cutoff
    /\ Len(PI_FULL_HISTORY) = 2
    /\ Len(logFile.lines) = 2

\* a line the load drops: not blank, and malformed, without a usable
\* timestamp, or past the retention cutoff
Discarded(line) ==
    /\ line.kind # "blank"
    /\ \/ line.kind # "dict"
       \/ line.ts[1] \notin {"isoaware", "isonaive"}
       \/ line.ts[2] < loadInfo.retention_cutoff

PastRetention(line) ==
    /\ line.kind = "dict"
    /\ line.ts[1] \in {"isoaware", "isonaive"}
    /\ line.ts[2] < loadInfo.retention_cutoff

\* C6, as stated: a load (without disk failure) that discards a line for any
\* reason writes the survivors back once, and the log then holds only them.
C6_AnyDiscardCompacts ==
    (Loaded /\ diskFailures = 0 /\ \E l \in Range(loadInfo.lines) : Discarded(l)) =>
        /\ loadInfo.rewrites = 1
        /\ logFile.lines = SerializeAll(PI_FULL_HISTORY)

\* C6, amended: a load writes the survivors back, once, exactly when it
\* discarded a line as past the retention cutoff; unless that write fails the
\* log then holds only the survivors; a load that discards only malformed
\* lines or lines without a usable timestamp leaves the log as it was.
C6_PrunedLinesCompact ==
    Loaded =>
        /\ loadInfo.rewrites = (IF \E l \in Range(loadInfo.lines) : PastRetention(l)
                                THEN 1 ELSE 0)
        /\ (loadInfo.rewrites = 1 /\ diskFailures = 0)
               => logFile.lines = SerializeAll(PI_FULL_HISTORY)
        /\ loadInfo.rewrites = 0 => logFile.lines = loadInfo.lines

\* a log with a torn line and a line past the cutoff has been compacted
C6_Witness ==
    /\ Loaded
    /\ diskFailures = 0
    /\ loadInfo.rewrites = 1
    /\ TornLine \in Range(loadInfo.lines)
    /\ Len(PI_FULL_HISTORY) >= 1
    /\ logFile.lines = SerializeAll(PI_FULL_HISTORY)

\* C7: downsample(seq, k) = seq when len(seq) <= k and when k <= 0, and
\* downsampling the result again with the same k changes nothing.
C7_ShortOrUnlimitedUnchanged ==
    (d_pc \in {"sampled", "again"} /\ (Len(d_entries) <= d_max_points \/ d_max_points <= 0)) =>
        /\ d_sampled = d_entries
        /\ d_pc = "again" => d_again = d_sampled

\* a sequence of several entries went through twice with no limit
C7_Witness ==
    /\ d_pc = "again"
    /\ d_max_points <= 0
    /\ Len(d_entries) >= 2
    /\ d_again = d_entries

\* C8: for non-empty seq and k >= 1 with len(seq) > k, downsample(seq, k) has
\* at most k+1 entries, starts with seq's first and ends with seq's last.
C8_LongInputBounded ==
    (d_pc = "sampled" /\ d_entries # <<>> /\ d_max_points >= 1
        /\ Len(d_entries) > d_max_points) =>
        /\ Len(d_sampled) <= d_max_points + 1
        /\ d_sampled # <<>>
        /\ d_sampled[1] = d_entries[1]
        /\ Last(d_sampled) = Last(d_entries)

\* the last entry had to be appended, making k+1 entries
C8_Witness ==
    /\ d_pc = "sampled"
    /\ d_max_points >= 2
    /\ Len(d_entries) > d_max_points
    /\ Len(d_sampled) = d_max_points + 1
    /\ Last(d_sampled) = Last(d_entries)

\* C9, as stated: the full series built with a cap max_points >= 1 has at
\* most max_points points.
C9_FullSeriesWithinCap ==
    (d_pc = "series" /\ d_max_points >= 1) => Len(d_series.labels) <= d_max_points

\* C9, amended: the full series built with a cap max_points >= 1 has at most
\* max_points + 1 points.
C9_FullSeriesWithinCapPlusOne ==
    (d_pc = "series" /\ d_max_points >= 1) => Len(d_series.labels) <= d_max_points + 1

\* a full series of max_points + 1 points
C9_Witness ==
    /\ d_pc = "series"
    /\ d_max_points >= 1
    /\ Len(d_entries) > d_max_points + 1
    /\ Len(d_series.labels) = d_max_points + 1

\* the uptimes of earlier calls that were followed by a strictly smaller one
RECURSIVE CarriedSum(_)
CarriedSum(u) ==
    IF Len(u) < 2 THEN 0
    ELSE (IF u[2] < u[1] THEN u[1] ELSE 0) + CarriedSum(Tail(u))

\* C10: in a run of sequential update() calls that starts without a state
\* file (and meets no file error), a call returns its uptime as
\* current_seconds and, as total_seconds, that uptime plus every earlier
\* uptime that was immediately followed by a strictly smaller one; after
\* 100, 200, 50, 150 that is total 350 and current 150.
C10_TotalIsUptimePlusCarried ==
    (sessClean /\ sessResult.kind = "ok") =>
        /\ sessResult.current = Last(uptimes)
        /\ sessResult.total = Last(uptimes) + CarriedSum(uptimes)
        /\ uptimes = <<100, 200, 50, 150>> =>
              (sessResult.total = 350 /\ sessResult.current = 150)

\* the fourth call of the run 100, 200, 50, 150 has returned
C10_Witness ==
    /\ sessClean
    /\ sessResult.kind = "ok"
    /\ uptimes = <<100, 200, 50, 150>>
    /\ sessResult.total = 350

\* what _load_session_state makes of the file when it reads it
PersistedTotal(file) == IF file.kind = "dict" THEN file.total ELSE 0
PersistedLast(file) == IF file.kind = "dict" THEN file.last ELSE 0

C12_NeverFailsOnStateFile ==
    [][/\ sessResult'.kind # "raised"
       /\ (uptimes' # uptimes /\ sessFile.kind # "dict") =>
              /\ sessResult'.current = Last(uptimes')
              /\ sessResult'.total = Last(uptimes')]_vars

\* C13: update() with a missing or unparsable uptime returns absent and
\* leaves the persisted state as it was.
C13_AbsentUptimeLeavesState ==
    [][sessResult'.kind = "absent" => sessFile' = sessFile]_vars

\* an absent uptime came after a state with a carried total was persisted
C13_Witness ==
    /\ sessResult.kind = "absent"
    /\ sessFile.kind = "dict"
    /\ sessFile.total > 0
    /\ sessFile.last > 0

\* C14: the sampler loop never exits because of a tick's failure, whatever
\* goes wrong inside the tick.
C14_SamplerNeverExits == pc[Sampler] # "dead"

Recording(t) == MkEntry(now[t], raw_point[t])

\* C15: when appending to or compacting the log fails, record() still
\* completes: the failing step leaves both containers as they are, with the
\* new entry in them, and the thread goes on (to the compaction, or to the
\* rest of its loop or request).
C15_DiskFailureKeepsEntry ==
    [][\A t \in Threads :
          (diskFailures' > diskFailures /\ pc[t] \in {"persist", "rewrite"}
              /\ pc'[t] # pc[t]) =>
             /\ PI_HISTORY' = PI_HISTORY
             /\ PI_FULL_HISTORY' = PI_FULL_HISTORY
             /\ Recording(t) \in Range(PI_HISTORY')
             /\ Recording(t) \in Range(PI_FULL_HISTORY')
             /\ pc'[t] \in {"rewrite", AfterRecord(t)}]_vars

\* the first record's append to the log failed, and a later record of the
\* sampler has gone through: memory holds both entries, the log only the
\* second
C15_Witness ==
    /\ diskFailures = 1
    /\ ticks = 1
    /\ pc[Sampler] = "sleep"
    /\ Len(PI_FULL_HISTORY) >= 2
    /\ logFile.exists
    /\ _serialize_pi_entry(Last(PI_FULL_HISTORY)) \in Range(logFile.lines)
    /\ \E i \in 1..(Len(PI_FULL_HISTORY) - 1) :
          _serialize_pi_entry(PI_FULL_HISTORY[i]) \notin Range(logFile.lines)

\* C16: record() stores every sample, whatever subset of its fields is
\* absent: after the append-and-evict step the entry, absent fields as null,
\* is the last of both containers, and each container is what it was plus
\* the entry, without exactly the entries older than the cutoff.
C16_PartialSampleStored ==
    [][\A t \in Threads :
          (pc[t] = "evict" /\ pc'[t] = "persist") =>
             LET e == [ts |-> now[t], cpu |-> raw_point[t].cpu, ram |-> raw_point[t].ram,
                       temperature |-> raw_point[t].temperature,
                       fan |-> raw_point[t].fan, online |-> raw_point[t].online]
             IN /\ PI_HISTORY' # <<>> /\ Last(PI_HISTORY') = e
                /\ PI_FULL_HISTORY' # <<>> /\ Last(PI_FULL_HISTORY') = e
                /\ PI_HISTORY' =
                      SelectSeq(PI_HISTORY,
                                LAMBDA x : x.ts >= now[t] - PI_HISTORY_WINDOW)
                /\ PI_FULL_HISTORY' =
                      SelectSeq(Append(PI_FULL_HISTORY, e),
                                LAMBDA x : x.ts >= now[t] - PI_FULL_HISTORY_RETENTION)]_vars

\* an entry with every field absent is in both containers, and its record
\* evicted an older entry from FullHistory
C16_Witness ==
    /\ pc[Sampler] = "persist"
    /\ raw_point[Sampler] = NoPoint
    /\ removed_full[Sampler] >= 1
    /\ Last(PI_HISTORY) = MkEntry(now[Sampler], NoPoint)
    /\ Last(PI_FULL_HISTORY) = MkEntry(now[Sampler], NoPoint)

NonDecreasing(q) == \A i \in 1..(Len(q) - 1) : q[i].ts <= q[i + 1].ts

\* C17: within one process run the timestamps of RecentWindow and of
\* FullHistory are non-decreasing in container order, for every interleaving
\* of the record() calls of the sampler and of seeding request handlers.
C17_TimestampsNonDecreasing ==
    restarts = 0 => (NonDecreasing(PI_HISTORY) /\ NonDecreasing(PI_FULL_HISTORY))

\* position i of every column of payload p comes from entry e
Aligned(p, i, e) ==
    /\ p.labels[i] = IsoAware(e.ts)
    /\ p.temperature[i] = e.temperature
    /\ p.cpu[i] = e.cpu
    /\ p.ram[i] = e.ram
    /\ p.fan[i] = e.fan
    /\ p.online[i] = e.online

\* C18: both query operations return columns of one length, position i of
\* every column coming from the same entry, absent values kept as nulls: the
\* recent series has one position per entry of the window, in order; every
\* position of the full series comes from an entry of the full history.
C18_ColumnsAligned ==
    d_pc \in {"recent", "series"} =>
        LET n == Len(d_series.labels) IN
        /\ \A col \in {d_series.temperature, d_series.cpu, d_series.ram,
                         d_series.fan, d_series.online} : Len(col) = n
        /\ d_pc = "recent" =>
              /\ n = Len(d_entries)
              /\ \A i \in 1..n : Aligned(d_series, i, d_entries[i])
        /\ d_pc = "series" =>
              /\ d_max_points <= 0 => n = Len(d_entries)
              /\ \A i \in 1..n : \E j \in 1..Len(d_entries) :
                    Aligned(d_series, i, d_entries[j])

\* a recent series of three entries with an absent temperature in the middle
\* and an absent cpu at the end
C18_Witness ==
    /\ d_pc = "recent"
    /\ Len(d_entries) = 3
    /\ d_series.temperature[1] # PyNone
    /\ d_series.temperature[2] = PyNone
    /\ d_series.cpu[3] = PyNone
    /\ Len(d_series.temperature) = 3

C20_NoIOUnderLock ==
    [][/\ (\/ logFile' # logFile
           \/ (load_entries' # load_entries /\ load_entries' # <<>>)
           \/ \E t \in Threads : raw_point'[t] # raw_point[t] /\ raw_point'[t] # NoPoint) =>
             /\ UNCHANGED <<PI_HISTORY, PI_FULL_HISTORY, PI_HISTORY_LOCK>>
             /\ \A t \in Threads : pc'[t] # pc[t] => PI_HISTORY_LOCK # t
       /\ \A t \in Threads :
             /\ PI_HISTORY_LOCK = t => pc[t] = "evict"
             /\ pruned_snapshot'[t] # pruned_snapshot[t] /\ pruned_snapshot'[t] # <<>> =>
                    (PI_HISTORY_LOCK = t /\ pruned_snapshot'[t] = PI_FULL_HISTORY')]_vars

\* a record is writing the compacted log while another thread holds the lock
C20_Witness ==
    \E t, u \in Threads :
        /\ t # u
        /\ pc[t] = "rewrite"
        /\ pruned_snapshot[t] # <<>>
        /\ PI_HISTORY_LOCK = u

\* C21: record() rewrites the log if and only if its own eviction removed at
\* least one entry from FullHistory; a record() that evicts nothing from
\* FullHistory changes the log only by appending one line for its entry,
\* also when it evicted from RecentWindow; the log changes in no other way
\* while the process serves.
C21_RewriteIffOwnFullEviction ==
    [][/\ \A t \in Threads :
            /\ (pc[t] = "evict" /\ pc'[t] = "persist") =>
                   removed_full'[t] = Len(PI_FULL_HISTORY) + 1 - Len(PI_FULL_HISTORY')
            /\ (pc[t] = "persist" /\ pc'[t] # "persist") =>
                   /\ logFile'.lines =
                          Append(logFile.lines, _serialize_pi_entry(Recording(t)))
                   /\ pc'[t] = "rewrite" <=> removed_full[t] > 0
            /\ (pc[t] = "rewrite" /\ pc'[t] # "rewrite") =>
                   /\ removed_full[t] > 0
                   /\ logFile'.lines = SerializeAll(pruned_snapshot[t])
       /\ (logFile' # logFile /\ pc[Main] = "serving") =>
              \E t \in Threads : pc[t] \in {"persist", "rewrite"} /\ pc'[t] # pc[t]]_vars

\* a record of the sampler evicted the only older entry from RecentWindow
\* and nothing from FullHistory: the log holds both lines, never rewritten
C21_Witness ==
    /\ restarts = 0
    /\ pc[Sampler] = "sleep"
    /\ Len(PI_FULL_HISTORY) = 2
    /\ Len(PI_HISTORY) = 1
    /\ PI_FULL_HISTORY[1].ts = 0
    /\ logFile.lines = SerializeAll(PI_FULL_HISTORY)

\* the entries of seq at indices 0, step, 2*step, ... (0-based)
EveryStepth(seq, step) ==
    LET n == Cardinality({i \in 0..(Len(seq) - 1) : i % step = 0})
    IN [j \in 1..n |-> seq[(j - 1) * step + 1]]

\* the last 0-based index among 0, step, 2*step, ... below Len(seq)
LastIndexTaken(seq, step) ==
    CHOOSE i \in 0..(Len(seq) - 1) :
        i % step = 0 /\ \A j \in 0..(Len(seq) - 1) : j % step = 0 => j <= i

Distinct(seq) == \A i, j \in 1..Len(seq) : seq[i] = seq[j] => i = j

ReachedTarget(n) == \A i \in 1..(n - 1) : p_targets[i] = "oserror"

\* C23: the connectivity value of a sample is true as soon as the first
\* reachable target connects, no later target being tried; false when every
\* target fails to connect; null, never false, when the probe raises another
\* error, and null when the sample is taken without probing.
C23_ConnectivityTriState ==
    p_pc = "returned" =>
        /\ ~p_check => (p_point.online = PyNone /\ p_tried = 0)
        /\ p_check =>
              /\ \A n \in 1..Len(p_targets) :
                    /\ (ReachedTarget(n) /\ p_targets[n] = "connects") =>
                           (p_point.online = PyBool(TRUE) /\ p_tried = n)
                    /\ (ReachedTarget(n) /\ p_targets[n] = "raises") =>
                           (p_point.online = PyNone /\ p_tried = n)
              /\ (\A n \in 1..Len(p_targets) : p_targets[n] = "oserror") =>
                     (p_point.online = PyBool(FALSE) /\ p_tried = Len(p_targets))

\* the first target failed to connect and the second raised another error:
\* the sample is returned with online unknown
C23_Witness ==
    /\ p_pc = "returned"
    /\ p_check
    /\ p_targets = <<"oserror", "raises">>
    /\ p_tried = 2
    /\ p_point.online = PyNone
    /\ p_point.cpu = PyFloat(42)

\* the sampler loop goes round: a tick starts at "fetch" and ends by going to
\* "sleep", straight from the failed fetch or from the last write of its
\* record; a sleep is followed by the next tick; nothing else starts a tick
LoopGoesRound ==
    /\ ticks' # ticks =>
           (pc[Sampler] = "fetch" /\ pc'[Sampler] \in {"lock", "sleep"})
    /\ (pc[Sampler] = "sleep" /\ pc'[Sampler] # "sleep") => pc'[Sampler] = "fetch"
    /\ (pc[Sampler] \in {"persist", "rewrite"}
           /\ pc'[Sampler] \notin {"persist", "rewrite"}) => pc'[Sampler] = "sleep"
    /\ (pc[Sampler] # "fetch" /\ pc'[Sampler] = "fetch") =>
           pc[Sampler] \in {"sleep", "off"}

SamplerStarts == pc[Sampler] = "off" /\ pc'[Sampler] # "off"

\* C24, as stated: the loop runs sleep, then sample, then repeat: the sampler
\* thread starts with a sleep, so that the first tick comes one interval
\* after the start, and between two consecutive ticks there is one sleep.
C24_SleepThenSample ==
    [][(SamplerStarts => pc'[Sampler] = "sleep") /\ LoopGoesRound]_vars

\* C24, amended: the loop runs sample, then sleep, then repeat: the sampler
\* thread starts with a tick, without sleeping first, and between two
\* consecutive ticks there is one sleep.
C24_SampleThenSleep ==
    [][(SamplerStarts => pc'[Sampler] = "fetch") /\ LoopGoesRound]_vars

\* the second tick has fetched its point after the first tick's record and
\* one sleep, no time having passed since the process started
C24_Witness ==
    /\ ticks = 2
    /\ pc[Sampler] = "lock"
    /\ clock = 0
    /\ Len(PI_FULL_HISTORY) = 1
    /\ Len(logFile.lines) = 1

FrontEvicted(before, after, cutoff) ==
    \E k \in 0..Len(before) :
        /\ after = SubSeq(before, k + 1, Len(before))
        /\ \A i \in 1..k : before[i].ts < cutoff

\* C26: a record() appends its entry at the end of each container and
\* removes from each only a prefix, every removed entry being older than
\* that record's cutoff; the entries that stay keep their order and their
\* fields; nothing but a record (or a restart and its load) changes a
\* container.
C26_EvictionIsOldestFirst ==
    [][/\ \A t \in Threads :
            /\ (pc[t] = "lock" /\ pc'[t] = "evict") =>
                   /\ PI_HISTORY' = Append(PI_HISTORY, Recording(t))
                   /\ PI_FULL_HISTORY' = PI_FULL_HISTORY
            /\ (pc[t] = "evict" /\ pc'[t] = "persist") =>
                   /\ FrontEvicted(PI_HISTORY, PI_HISTORY', now[t] - PI_HISTORY_WINDOW)
                   /\ FrontEvicted(Append(PI_FULL_HISTORY, Recording(t)), PI_FULL_HISTORY',
                                   now[t] - PI_FULL_HISTORY_RETENTION)
                   /\ PI_HISTORY' # <<>> /\ Last(PI_HISTORY') = Recording(t)
                   /\ PI_FULL_HISTORY' # <<>> /\ Last(PI_FULL_HISTORY') = Recording(t)
       /\ (PI_HISTORY' # PI_HISTORY \/ PI_FULL_HISTORY' # PI_FULL_HISTORY) =>
              \/ \E t \in Threads : pc[t] \in {"lock", "evict"} /\ pc'[t] # pc[t]
              \/ pc[Main] # "serving"
              \/ pc'[Main] # "serving"]_vars

\* two records that overlapped left the containers out of order; a third
\* record evicted both older entries from RecentWindow and none from
\* FullHistory, whose front is within the retention while the entry behind
\* it is older than the cutoff
C26_Witness ==
    /\ restarts = 0
    /\ PI_HISTORY_LOCK = Free
    /\ Len(PI_HISTORY) = 1
    /\ Len(PI_FULL_HISTORY) = 3
    /\ PI_FULL_HISTORY[1].ts >= lastCutoff[2]
    /\ PI_FULL_HISTORY[2].ts < lastCutoff[2]

\* a can be had from b by leaving entries out
RECURSIVE IsSubSequence(_, _)
IsSubSequence(a, b) ==
    IF a = <<>> THEN TRUE
    ELSE IF b = <<>> THEN FALSE
    ELSE IF a[1] = b[1] THEN IsSubSequence(Tail(a), Tail(b))
    ELSE IsSubSequence(a, Tail(b))

\* C27: whenever no thread holds the lock, RecentWindow is FullHistory with
\* some entries left out, the others in the same order: after the load and
\* after any interleaving of record() calls.
C27_RecentWithinFull ==
    PI_HISTORY_LOCK = Free => IsSubSequence(PI_HISTORY, PI_FULL_HISTORY)

\* after a restart the load has put into RecentWindow the last of several
\* entries of FullHistory, and a record has added its entry to both
C27_Witness ==
    /\ restarts = 1
    /\ loadInfo.ran
    /\ Len(loadInfo.full) >= 2
    /\ Len(loadInfo.recent) = 1
    /\ PI_HISTORY_LOCK = Free
    /\ Len(PI_HISTORY) = 2
    /\ Len(PI_FULL_HISTORY) >= 3

\* C28: handlers that fetch concurrently while RecentWindow is empty record
\* one seed entry between them: as long as the sampler has recorded nothing
\* in this process run, the store holds at most one entry.
C28_OneSeedPerEmptyWindow ==
    (restarts = 0 /\ ticks = 0) =>
        (Len(PI_HISTORY) <= 1 /\ Len(PI_FULL_HISTORY) <= 1)

RECURSIVE SumOf(_)
SumOf(q) == IF q = <<>> THEN 0 ELSE q[1] + SumOf(Tail(q))

\* C29: with handlers fetching the uptime and updating concurrently, the
\* persisted total never decreases and never exceeds what the sessions the
\* device has completed add up to: no reboot is counted twice and none is
\* counted that did not happen.
C29_ConcurrentUpdatesCarryOnce ==
    [][/\ PersistedTotal(sessFile') >= PersistedTotal(sessFile)
       /\ PersistedTotal(sessFile') <= SumOf(deviceSessions')]_vars

\* C30: the lock is held only by a thread inside a with-block, which can
\* always go on to release it; and under fair scheduling every thread that
\* waits for the lock, to record or to read a snapshot, gets it, whatever
\* the threads outside the lock are doing.
C30_LockAlwaysAcquired ==
    /\ [](\A t \in Threads : PI_HISTORY_LOCK = t => pc[t] = "evict")
    /\ \A t \in Threads : (pc[t] = "lock") ~> (pc[t] = "evict")
    /\ \A h \in Handlers : (pc[h] = "read_recent") ~> (pc[h] = "read_full")
    /\ \A h \in Handlers : (pc[h] = "read_full") ~> (pc[h] = "done")

\* a handler waits for the lock to record while the other handler holds it
\* and the sampler is writing the log
C30_Witness ==
    \E h, g \in Handlers :
        /\ h # g
        /\ pc[h] = "lock"
        /\ PI_HISTORY_LOCK = g
        /\ pc[Sampler] = "persist"

====
